---------------------------- MODULE Spec2Model ----------------------------
(***************************************************************************)
(* The threaded TCP command server of chapter_05_server.py, with its peers *)
(* (the TCP clients) as the environment.                                   *)
(*                                                                         *)
(* One handler thread per accepted connection runs handle_client; the      *)
(* listener thread runs start_server's accept loop.  Every handler step is *)
(* one lock operation or one socket operation of the source, so that the   *)
(* interleavings of the threads are those the source allows.               *)
(*                                                                         *)
(* Spec is the whole server with its peers; FairSpec adds the fair         *)
(* scheduling of the handler threads; DispatchSpec starts with the         *)
(* connections in session and gives the dispatcher every kind of message;  *)
(* ClientSpec runs the client program of chapter_05_client.py, with its    *)
(* command line and the lines its operator types, against the server;      *)
(* StreamSpec lets the handlers receive from the byte stream of their      *)
(* connection, wherever the peer's messages begin and end in it.           *)
(*                                                                         *)
(* Text is a sequence of one-character strings; a fixed literal of the     *)
(* source is kept as one token.  Bytes that are not valid UTF-8 are the    *)
(* token BadByte.                                                          *)
(***************************************************************************)
EXTENDS Integers, Sequences, FiniteSets, TLC

\* ------------------------------------------------------------- bounds
\* Connections that are ever opened against the server.
MaxConns == 2
\* Messages the peers send in total.
MaxSends == 2
\* Messages the peers send in total under FairSpec.
FairSends == 1
\* Unread server-to-client messages a connection buffers before send blocks.
SendCap == 1

\* the most lines the operator of the client program types
MaxInputs == 2

\* the most messages a peer has sent ahead of the server's receive
MaxQueued == 2

Conns == 1..MaxConns

\* No thread holds connection_lock.
NoOwner == 0

\* --------------------------------------------------------------- text
UpperChars ==
    << "A","B","C","D","E","F","G","H","I","J","K","L","M",
       "N","O","P","Q","R","S","T","U","V","W","X","Y","Z" >>

LowerChars ==
    << "a","b","c","d","e","f","g","h","i","j","k","l","m",
       "n","o","p","q","r","s","t","u","v","w","x","y","z" >>

Whitespace == {" ", "\n", "\t", "\r"}

BadByte == "0xFF"

DigitChars == << "0","1","2","3","4","5","6","7","8","9" >>

LowerChar(ch) ==
    IF \E i \in 1..26 : UpperChars[i] = ch
    THEN LowerChars[CHOOSE i \in 1..26 : UpperChars[i] = ch]
    ELSE ch

UpperChar(ch) ==
    IF \E i \in 1..26 : LowerChars[i] = ch
    THEN UpperChars[CHOOSE i \in 1..26 : LowerChars[i] = ch]
    ELSE ch

\* (mutant) the comparison is made on the message as it was typed
LowerNot(s) == s

\* str.lower()
Lower(s) == [i \in 1..Len(s) |-> LowerChar(s[i])]

RECURSIVE LStrip(_)
LStrip(s) ==
    IF s # << >> /\ Head(s) \in Whitespace THEN LStrip(Tail(s)) ELSE s

RECURSIVE RStrip(_)
RStrip(s) ==
    IF s # << >> /\ s[Len(s)] \in Whitespace
    THEN RStrip(SubSeq(s, 1, Len(s) - 1))
    ELSE s

\* str.strip()
Strip(s) == RStrip(LStrip(s))

\* bytes.decode('utf-8') succeeds
Decodable(data) == \A i \in 1..Len(data) : data[i] # BadByte

\* bytes.decode('utf-8') of decodable bytes, and str.encode('utf-8')
Decode(data) == data

Encode(text) == text

RECURSIVE Digits(_)
\* str(n) of an integer, as the f-string formats the counter
Digits(n) ==
    IF n < 0 THEN << "-" >> \o Digits(0 - n)
    ELSE IF n < 10 THEN << DigitChars[n + 1] >>
    ELSE Digits(n \div 10) \o << DigitChars[(n % 10) + 1] >>

\* ----------------------------------------------------------- dispatcher
Help == << "h","e","l","p" >>

Status == << "s","t","a","t","u","s" >>

Spell == << "s","p","e","l","l" >>

Quit == << "q","u","i","t" >>

HelpResponse ==
    << "\nAvailable commands:\n",
       "- HELP: Show this help message\n",
       "- STATUS: Show server status\n",
       "- SPELL: Cast a random spell\n",
       "- QUIT: Disconnect from server\n" >>

StatusPrefix == "Server Status: Running | Active connections: "

\* (mutant) the status reports the other connections only
StatusResponseOthers(n) == << StatusPrefix >> \o Digits(n - 1) \o << "\n" >>

StatusResponse(n) == << StatusPrefix >> \o Digits(n) \o << "\n" >>

Spells ==
    { "Lightning Bolt strikes!", "Fireball erupts!",
      "Ice Shard freezes the enemy!", "Dark Magic overwhelms!",
      "Healing Light restores health!" }

SpellPrefix == "The Mage casts: "

QuitResponse == << "Farewell, adventurer! May your journey continue...\n" >>

EchoPrefix == "[Echo from Mage's Tower] "

\* (mutant) the lower-cased copy of the message is echoed
EchoResponseLowered(message) == << EchoPrefix >> \o Lower(message) \o << "\n" >>

EchoResponse(message) == << EchoPrefix >> \o message \o << "\n" >>

\* (mutant) the status branch leaves the asking connection out of the count
ResponsesOthers(message, counter) ==
    LET message_lower == Lower(message) IN
    IF message_lower = Help THEN { HelpResponse }
    ELSE IF message_lower = Status THEN { StatusResponse(counter - 1) }
    ELSE IF message_lower = Spell
         THEN { << SpellPrefix, s, "\n" >> : s \in Spells }
    ELSE IF message_lower = Quit THEN { QuitResponse }
    ELSE { EchoResponse(message) }

\* (mutant) the help text ends with the number of active connections
ResponsesHelpCounts(message, counter) ==
    LET message_lower == Lower(message) IN
    IF message_lower = Help THEN { HelpResponse \o Digits(counter) }
    ELSE IF message_lower = Status THEN { StatusResponse(counter) }
    ELSE IF message_lower = Spell
         THEN { << SpellPrefix, s, "\n" >> : s \in Spells }
    ELSE IF message_lower = Quit THEN { QuitResponse }
    ELSE { EchoResponse(message) }

\* The responses process_message may return for `message` when the counter
\* reads `counter` (one response, except for the random choice of a spell).
Responses(message, counter) ==
    LET message_lower == Lower(message) IN
    IF message_lower = Help THEN { HelpResponse }
    ELSE IF message_lower = Status THEN { StatusResponse(counter) }
    ELSE IF message_lower = Spell
         THEN { << SpellPrefix, s, "\n" >> : s \in Spells }
    ELSE IF message_lower = Quit THEN { QuitResponse }
    ELSE { EchoResponse(message) }

\* ------------------------------------------------------- the environment
\* What a peer sends in one message: a status query in mixed case with a
\* trailing newline, quit, undecodable bytes.
StatusData == << "S","t","a","t","u","s","\n" >>

BadData == << BadByte >>

ClientData == { StatusData, Quit, BadData }

RECURSIVE CaseVariants(_)
\* The spellings of a word in upper and lower case letters.
CaseVariants(word) ==
    IF word = << >> THEN { << >> }
    ELSE { << ch >> \o rest :
               ch \in {Head(word), UpperChar(Head(word))},
               rest \in CaseVariants(Tail(word)) }

\* The keywords of the dispatcher, as process_message compares them.
Keywords == {Help, Status, Spell, Quit}

\* Free text of up to three characters: letters in both cases, blanks and
\* line ends (so also text that is only whitespace).
FreeChars == {"d", "D", " ", "\n"}

FreeText ==
    { << a >> : a \in FreeChars }
        \cup { << a, b >> : a, b \in FreeChars }
        \cup { << a, b, c >> : a, b, c \in FreeChars }

\* What a peer may send in one message to the dispatcher: a keyword in any
\* spelling, a keyword within whitespace or within other text, free text,
\* undecodable bytes.
CommandData ==
    UNION { CaseVariants(k) : k \in Keywords }
        \cup { << " " >> \o k \o << "\n" >> : k \in Keywords }
        \cup { k \o << "d" >> : k \in Keywords }
        \cup FreeText
        \cup { StatusData, BadData }

\* What the peer sent before the message of interest.
PriorData == { << >>, << Help >>, << StatusData >>, << << "d" >> >> }

\* ----------------------------------------------------------------- state
\* start_server's position lis: "starting" (168-173, before bind),
\* "listening" (the accept loop, 188-204), "stopped" (KeyboardInterrupt
\* ended the loop, 206-215), "errored" (an exception ended the loop,
\* 209-215), "failed" (bind or listen raised, 209-215), "exited" (main has
\* returned and the process is gone).
\*
\* A handler's position pc, with the line of handle_client it is about to
\* run: "none" (no thread yet), "start" (39, taking the lock), "inc" (40,
\* the store of += 1), "welcome" (50), "recv" (56), "dispatch" (64-68),
\* "send" (71), "close" (81), "dec_acq" (83, taking the lock), "dec" (84,
\* the store of -= 1), "done" (the thread has ended).
VARIABLES
    lis,                 \* start_server's position (see below)
    exitStatus,          \* the exit status of the process, -1 while it runs
    client,              \* the client program of chapter_05_client.py
    active_connections,  \* the global counter
    connection_lock,     \* NoOwner, or the handler that holds the lock
    pc,                  \* each handler's position in handle_client
    sock,                \* each client_socket: "none", "open", "closed"
    tmp,                 \* the value `+= 1` / `-= 1` loaded
    current_connections, \* handle_client's local of that name
    data,                \* handle_client's local: the bytes of the last recv
    response,            \* handle_client's local: the response to send
    label,               \* the N of the thread's name Thread-N
    nextThread,          \* threading's counter of thread names
    peer,                \* "none", "open", "closed", "reset", "gone"
    toServer,            \* messages in flight to the server
    toClient,            \* messages the server sent, unread by the peer
    budget,              \* messages the peers may still send
    welcomed,            \* history of a running handler: the welcome was sent
    exitCause,           \* history of a running handler: how it left try
    closes,              \* history: calls of client_socket.close()
    incs,                \* history: increments by this handler
    decs,                \* history: decrements by this handler
    recvs,               \* history of a running handler: messages received
    resps                \* history of a running handler: responses sent

\* The client program, started with the arguments `message` (the text of
\* -m, empty when it is not given) and `interactive` (-i), its operator
\* going to type the lines `inputs`.  pc is the position in main: "idle"
\* (not started), "args" (221-227), "connect" (230), "welcome" (238),
\* "input" (interactive_mode, 138), "send" (send_message, 88), "recv"
\* (send_message, 93), "close" (254-257), "done" (the process has ended).
\* sock is the client_socket; user_input the message being sent.  The
\* other fields are histories: the lines typed, the calls of connect, the
\* messages and the
\* results of the calls of send and recv for the exchanges, whether the
\* welcome read was made, the calls of recv and close, the exit status
\* (-1 while the process runs) and whether it ended in a traceback.
ClientStart(message, interactive, inputs) ==
    [ pc |-> "args", message |-> message, interactive |-> interactive,
      inputs |-> inputs, typed |-> << >>, user_input |-> << >>,
      sock |-> "none",
      connects |-> 0, sent |-> << >>, got |-> << >>, welcome |-> FALSE,
      recvs |-> 0, closes |-> 0, status |-> -1, crashed |-> FALSE ]

\* No client program runs.
ClientIdle == [ ClientStart(<< >>, FALSE, << >>) EXCEPT !.pc = "idle" ]

vars ==
    << lis, exitStatus, client,
       active_connections, connection_lock, pc, sock, tmp,
       current_connections, data, response, label, nextThread, peer,
       toServer, toClient, budget, welcomed, exitCause, closes, incs, decs,
       recvs, resps >>

serverVars ==
    << lis, exitStatus, client,
       active_connections, connection_lock, pc, sock, tmp,
       current_connections, data, response, label, nextThread, welcomed,
       exitCause, closes, incs, decs, recvs, resps >>

\* The server is starting, no connection has been made; the peers will
\* send at most n messages, and the client program is `program`.
StartWith(n, program) ==
    /\ lis = "starting"
    /\ exitStatus = -1
    /\ client = program
    /\ active_connections = 0
    /\ connection_lock = NoOwner
    /\ pc = [c \in Conns |-> "none"]
    /\ sock = [c \in Conns |-> "none"]
    /\ tmp = [c \in Conns |-> 0]
    /\ current_connections = [c \in Conns |-> 0]
    /\ data = [c \in Conns |-> << >>]
    /\ response = [c \in Conns |-> << >>]
    /\ label = [c \in Conns |-> 0]
    /\ nextThread = 1
    /\ peer = [c \in Conns |-> "none"]
    /\ toServer = [c \in Conns |-> << >>]
    /\ toClient = [c \in Conns |-> << >>]
    /\ budget = n
    /\ welcomed = [c \in Conns |-> FALSE]
    /\ exitCause = [c \in Conns |-> "none"]
    /\ closes = [c \in Conns |-> 0]
    /\ incs = [c \in Conns |-> 0]
    /\ decs = [c \in Conns |-> 0]
    /\ recvs = [c \in Conns |-> 0]
    /\ resps = [c \in Conns |-> 0]

InitWith(n) == StartWith(n, ClientIdle)

Init == InitWith(MaxSends)

\* The connections 1..n are in session, their handlers in recv after the
\* welcome message was sent and read, and the peer of connection 1 has sent
\* the messages of `sent`.
InSessionWith(n, sent) ==
    /\ lis = "listening"
    /\ exitStatus = -1
    /\ client = ClientIdle
    /\ active_connections = n
    /\ connection_lock = NoOwner
    /\ pc = [c \in Conns |-> IF c <= n THEN "recv" ELSE "none"]
    /\ sock = [c \in Conns |-> IF c <= n THEN "open" ELSE "none"]
    /\ tmp = [c \in Conns |-> 0]
    /\ current_connections = [c \in Conns |-> 0]
    /\ data = [c \in Conns |-> << >>]
    /\ response = [c \in Conns |-> << >>]
    /\ label = [c \in Conns |-> IF c <= n THEN c ELSE 0]
    /\ nextThread = n + 1
    /\ peer = [c \in Conns |-> IF c <= n THEN "open" ELSE "none"]
    /\ toServer = [c \in Conns |-> IF c = 1 THEN sent ELSE << >>]
    /\ toClient = [c \in Conns |-> << >>]
    /\ budget = 0
    /\ welcomed = [c \in Conns |-> c <= n]
    /\ exitCause = [c \in Conns |-> "none"]
    /\ closes = [c \in Conns |-> 0]
    /\ incs = [c \in Conns |-> IF c <= n THEN 1 ELSE 0]
    /\ decs = [c \in Conns |-> 0]
    /\ recvs = [c \in Conns |-> 0]
    /\ resps = [c \in Conns |-> 0]

\* Some connections are in session and the peer of the first has sent a
\* message, possibly after another.
DispatchInit ==
    \E n \in Conns : \E prior \in PriorData : \E m \in CommandData :
        InSessionWith(n, prior \o << m >>)

\* The server process exists (its threads run).
Alive == lis # "exited"

\* The handler is inside its try block (a session is in progress).
InSession(h) == pc[h] \in {"welcome", "recv", "dispatch", "send"}

\* ------------------------------------------------------------ the lock
\* (mutant) the counter is touched without taking the lock
LockAcquireNot(h) == connection_lock' = connection_lock

\* (mutant) the lock does not exclude: a thread takes it from its holder
LockAcquireShared(h) == connection_lock' = h

\* `with connection_lock:` entered by thread h
LockAcquire(h) ==
    /\ connection_lock = NoOwner
    /\ connection_lock' = h

\* (mutant) the lock is kept beyond the block
LockReleaseNot(h) == connection_lock' = connection_lock

\* (mutant) the lock is not released after the decrement
LockReleaseLeaks(h) ==
    connection_lock' = IF connection_lock = h /\ pc[h] # "dec" THEN NoOwner
                       ELSE connection_lock

\* the end of the `with connection_lock:` block of thread h
LockRelease(h) ==
    connection_lock' = IF connection_lock = h THEN NoOwner ELSE connection_lock

\* (mutant) the increment is forgotten
IncrementedNot(v) == v

\* active_connections += 1
Incremented(v) == v + 1

\* (mutant) the decrement is forgotten
DecrementedNot(v) == v

\* active_connections -= 1
Decremented(v) == v - 1

\* ---------------------------------------------------------- the sockets
WelcomeMsg(h) ==
    << "Welcome, brave adventurer! You are connected to the Mage's Tower.\n",
       "Your connection ID: Thread-" >> \o Digits(label[h]) \o << "\n" >>

\* client_socket.send(bytes) returns: the bytes are queued for an open peer
\* with room in its buffer (send blocks while there is none), or they are
\* taken for a peer that has closed and will never read them.
SockSend(h, bytes) ==
    \/ /\ peer[h] = "open"
       /\ Len(toClient[h]) < SendCap
       /\ toClient' = [toClient EXCEPT ![h] = Append(@, bytes)]
    \/ /\ peer[h] = "closed"
       /\ toClient' = toClient

\* client_socket.send(bytes) raises ConnectionResetError or BrokenPipeError
\* (caught by `except Exception`): the peer has gone.
SockSendFails(h) == peer[h] \in {"closed", "reset"}

\* (mutant) an exception ends the thread without the finally block
LeaveNoCleanup(h, cause) ==
    /\ exitCause' = [exitCause EXCEPT ![h] = "none"]
    /\ current_connections' = [current_connections EXCEPT ![h] = 0]
    /\ data' = [data EXCEPT ![h] = << >>]
    /\ response' = [response EXCEPT ![h] = << >>]
    /\ pc' = [pc EXCEPT ![h] = "done"]

\* Leaving the try block for the finally block.  (The locals
\* current_connections, data and response are cleared where the source
\* never reads them again.)
Leave(h, cause) ==
    /\ exitCause' = [exitCause EXCEPT ![h] = cause]
    /\ current_connections' = [current_connections EXCEPT ![h] = 0]
    /\ data' = [data EXCEPT ![h] = << >>]
    /\ response' = [response EXCEPT ![h] = << >>]
    /\ pc' = [pc EXCEPT ![h] = "close"]

\* ---------------------------------------------------------- the listener
\* start_server has closed the listening socket and is about to return.
Closing == lis \in {"stopped", "errored", "failed"}

\* server_socket.bind() and listen() succeed.
Bind ==
    /\ lis = "starting"
    /\ lis' = "listening"
    /\ UNCHANGED << exitStatus, client,
                    active_connections, connection_lock, pc, sock, tmp,
                    current_connections, data, response, label, nextThread,
                    peer, toServer, toClient, budget, welcomed, exitCause,
                    closes, incs, decs, recvs, resps >>

\* server_socket.bind() or listen() raises (address in use, permission
\* denied): `except Exception` reports it; finally, the socket is closed.
BindFail ==
    /\ lis = "starting"
    /\ lis' = "failed"
    /\ UNCHANGED << exitStatus, client,
                    active_connections, connection_lock, pc, sock, tmp,
                    current_connections, data, response, label, nextThread,
                    peer, toServer, toClient, budget, welcomed, exitCause,
                    closes, incs, decs, recvs, resps >>

\* (mutant) the listener joins the handlers before it accepts again
AcceptAfterJoin(c) ==
    /\ lis = "listening"
    /\ peer[c] # "none"
    /\ pc[c] = "none"
    /\ \A d \in Conns : pc[d] \in {"none", "done"}
    /\ sock' = [sock EXCEPT ![c] = "open"]
    /\ pc' = [pc EXCEPT ![c] = "start"]
    /\ label' = [label EXCEPT ![c] = nextThread]
    /\ nextThread' = nextThread + 1
    /\ UNCHANGED << lis, exitStatus, client,
                    active_connections, connection_lock, tmp,
                    current_connections, data, response, peer, toServer,
                    toClient, budget, welcomed, exitCause, closes, incs, decs,
                    recvs, resps >>
\* (mutant) every handler thread is given the same name
AcceptSameName(c) ==
    /\ lis = "listening"
    /\ peer[c] # "none"
    /\ pc[c] = "none"
    /\ \A d \in Conns : d < c => pc[d] # "none"
    /\ sock' = [sock EXCEPT ![c] = "open"]
    /\ pc' = [pc EXCEPT ![c] = "start"]
    /\ label' = [label EXCEPT ![c] = 1]
    /\ nextThread' = nextThread + 1
    /\ UNCHANGED << lis, exitStatus, client,
                    active_connections, connection_lock, tmp,
                    current_connections, data, response, peer, toServer,
                    toClient, budget, welcomed, exitCause, closes, incs, decs,
                    recvs, resps >>

\* server_socket.accept() returns connection c, the oldest in the queue;
\* its thread is started.
Accept(c) ==
    /\ lis = "listening"
    /\ peer[c] # "none"
    /\ pc[c] = "none"
    /\ \A d \in Conns : d < c => pc[d] # "none"
    /\ sock' = [sock EXCEPT ![c] = "open"]
    /\ pc' = [pc EXCEPT ![c] = "start"]
    /\ label' = [label EXCEPT ![c] = nextThread]
    /\ nextThread' = nextThread + 1
    /\ UNCHANGED << lis, exitStatus, client,
                    active_connections, connection_lock, tmp,
                    current_connections, data, response, peer, toServer,
                    toClient, budget, welcomed, exitCause, closes, incs, decs,
                    recvs, resps >>

\* (mutant) the shutdown closes the connections that are in session
InterruptClosesHandlers ==
    /\ lis = "listening"
    /\ lis' = "stopped"
    /\ pc' = [c \in Conns |-> IF InSession(c) THEN "close" ELSE pc[c]]
    /\ UNCHANGED << exitStatus, client,
                    active_connections, connection_lock, sock, tmp,
                    current_connections, data, response, label, nextThread,
                    peer, toServer, toClient, budget, welcomed, exitCause,
                    closes, incs, decs, recvs, resps >>

\* KeyboardInterrupt in the accept loop: the loop ends; finally, the
\* listening socket is closed.
Interrupt ==
    /\ lis = "listening"
    /\ lis' = "stopped"
    /\ UNCHANGED << exitStatus, client,
                    active_connections, connection_lock, pc, sock, tmp,
                    current_connections, data, response, label, nextThread,
                    peer, toServer, toClient, budget, welcomed, exitCause,
                    closes, incs, decs, recvs, resps >>

\* accept() or Thread.start() raises: `except Exception` ends the loop;
\* finally, the listening socket is closed.
AcceptError ==
    /\ lis = "listening"
    /\ lis' = "errored"
    /\ UNCHANGED << exitStatus, client,
                    active_connections, connection_lock, pc, sock, tmp,
                    current_connections, data, response, label, nextThread,
                    peer, toServer, toClient, budget, welcomed, exitCause,
                    closes, incs, decs, recvs, resps >>

\* start_server and main return: the interpreter exits with status 0, and
\* the daemon threads end with it, wherever they are.  Nothing of the
\* process is left: the state is that of Init, but for lis and exitStatus.
ProcessExit ==
    /\ Closing
    /\ lis' = "exited"
    /\ exitStatus' = 0
    /\ client' = client
    /\ active_connections' = 0
    /\ connection_lock' = NoOwner
    /\ pc' = [c \in Conns |-> "none"]
    /\ sock' = [c \in Conns |-> "none"]
    /\ tmp' = [c \in Conns |-> 0]
    /\ current_connections' = [c \in Conns |-> 0]
    /\ data' = [c \in Conns |-> << >>]
    /\ response' = [c \in Conns |-> << >>]
    /\ label' = [c \in Conns |-> 0]
    /\ nextThread' = 1
    /\ peer' = [c \in Conns |-> "none"]
    /\ toServer' = [c \in Conns |-> << >>]
    /\ toClient' = [c \in Conns |-> << >>]
    /\ budget' = 0
    /\ welcomed' = [c \in Conns |-> FALSE]
    /\ exitCause' = [c \in Conns |-> "none"]
    /\ closes' = [c \in Conns |-> 0]
    /\ incs' = [c \in Conns |-> 0]
    /\ decs' = [c \in Conns |-> 0]
    /\ recvs' = [c \in Conns |-> 0]
    /\ resps' = [c \in Conns |-> 0]


\* ----------------------------------------------------------- the handler
netVars == << peer, toServer, toClient, budget >>

\* `with connection_lock:` is entered and `+= 1` loads the counter.
HandlerEnter(h) ==
    /\ Alive
    /\ pc[h] = "start"
    /\ LockAcquire(h)
    /\ tmp' = [tmp EXCEPT ![h] = active_connections]
    /\ pc' = [pc EXCEPT ![h] = "inc"]
    /\ UNCHANGED << lis, exitStatus, client,
                    active_connections, sock, current_connections, data,
                    response, label, nextThread, welcomed, exitCause, closes,
                    incs, decs, recvs, resps >>
    /\ UNCHANGED netVars

\* `+= 1` stores, the count is copied, the lock is released.
HandlerIncrement(h) ==
    /\ Alive
    /\ pc[h] = "inc"
    /\ active_connections' = Incremented(tmp[h])
    /\ current_connections' =
           [current_connections EXCEPT ![h] = active_connections']
    /\ incs' = [incs EXCEPT ![h] = @ + 1]
    /\ LockRelease(h)
    /\ pc' = [pc EXCEPT ![h] = "welcome"]
    /\ tmp' = [tmp EXCEPT ![h] = 0]
    /\ UNCHANGED << lis, exitStatus, client,
                    sock, data, response, label, nextThread,
                    welcomed, exitCause, closes, decs, recvs, resps >>
    /\ UNCHANGED netVars

\* The welcome message is sent; the loop is entered.
HandlerWelcome(h) ==
    /\ Alive
    /\ pc[h] = "welcome"
    /\ SockSend(h, Encode(WelcomeMsg(h)))
    /\ welcomed' = [welcomed EXCEPT ![h] = TRUE]
    /\ current_connections' = [current_connections EXCEPT ![h] = 0]
    /\ pc' = [pc EXCEPT ![h] = "recv"]
    /\ UNCHANGED << lis, exitStatus, client,
                    active_connections, connection_lock, sock, tmp,
                    data, response, label, nextThread,
                    exitCause, closes, incs, decs, recvs, resps, peer,
                    toServer, budget >>

\* (mutant) a failed welcome is swallowed and the loop is entered
HandlerWelcomeFailGoesOn(h) ==
    /\ Alive
    /\ pc[h] = "welcome"
    /\ SockSendFails(h)
    /\ pc' = [pc EXCEPT ![h] = "recv"]
    /\ UNCHANGED << lis, exitStatus, client,
                    active_connections, connection_lock, sock, tmp,
                    current_connections, data, response, label, nextThread,
                    welcomed, exitCause, closes, incs, decs, recvs, resps >>
    /\ UNCHANGED netVars

\* Sending the welcome message raises.
HandlerWelcomeFail(h) ==
    /\ Alive
    /\ pc[h] = "welcome"
    /\ SockSendFails(h)
    /\ Leave(h, "send")
    /\ UNCHANGED << lis, exitStatus, client,
                    active_connections, connection_lock, sock, tmp,
                    label, nextThread,
                    welcomed, closes, incs, decs, recvs, resps >>
    /\ UNCHANGED netVars

\* recv returns the next message of the peer.
HandlerRecv(h) ==
    /\ Alive
    /\ pc[h] = "recv"
    /\ peer[h] # "reset"
    /\ toServer[h] # << >>
    /\ data' = [data EXCEPT ![h] = Head(toServer[h])]
    /\ toServer' = [toServer EXCEPT ![h] = Tail(@)]
    /\ recvs' = [recvs EXCEPT ![h] = @ + 1]
    /\ pc' = [pc EXCEPT ![h] = "dispatch"]
    /\ UNCHANGED << lis, exitStatus, client,
                    active_connections, connection_lock, sock, tmp,
                    current_connections, response, label, nextThread,
                    welcomed, exitCause, closes, incs, decs, resps,
                    peer, toClient, budget >>

\* (mutant) `continue` for `break`: the empty read is ignored
HandlerRecvEofGoesOn(h) ==
    /\ Alive
    /\ pc[h] = "recv"
    /\ peer[h] = "closed"
    /\ toServer[h] = << >>
    /\ UNCHANGED vars

\* (mutant) the empty read is not tested and goes to the dispatcher
HandlerRecvEofDispatches(h) ==
    /\ Alive
    /\ pc[h] = "recv"
    /\ peer[h] = "closed"
    /\ toServer[h] = << >>
    /\ data' = [data EXCEPT ![h] = << >>]
    /\ recvs' = [recvs EXCEPT ![h] = @ + 1]
    /\ pc' = [pc EXCEPT ![h] = "dispatch"]
    /\ UNCHANGED << lis, exitStatus, client,
                    active_connections, connection_lock, sock, tmp,
                    current_connections, response, label, nextThread,
                    welcomed, exitCause, closes, incs, decs, resps >>
    /\ UNCHANGED netVars

\* recv returns no bytes: the peer has closed; `break`.
HandlerRecvEof(h) ==
    /\ Alive
    /\ pc[h] = "recv"
    /\ peer[h] = "closed"
    /\ toServer[h] = << >>
    /\ Leave(h, "eof")
    /\ UNCHANGED << lis, exitStatus, client,
                    active_connections, connection_lock, sock, tmp,
                    label, nextThread,
                    welcomed, closes, incs, decs, recvs, resps >>
    /\ UNCHANGED netVars

\* recv raises ConnectionResetError.
HandlerRecvReset(h) ==
    /\ Alive
    /\ pc[h] = "recv"
    /\ peer[h] = "reset"
    /\ Leave(h, "reset")
    /\ UNCHANGED << lis, exitStatus, client,
                    active_connections, connection_lock, sock, tmp,
                    label, nextThread,
                    welcomed, closes, incs, decs, recvs, resps >>
    /\ UNCHANGED netVars

\* (mutant) the response is computed and the loop goes on without sending
HandlerDispatchNoSend(h) ==
    /\ Alive
    /\ pc[h] = "dispatch"
    /\ Decodable(data[h])
    /\ \E r \in Responses(Strip(Decode(data[h])), active_connections) :
           response' = [response EXCEPT ![h] = r]
    /\ pc' = [pc EXCEPT ![h] = "recv"]
    /\ UNCHANGED << lis, exitStatus, client,
                    active_connections, connection_lock, sock, tmp,
                    current_connections, data, label, nextThread, welcomed,
                    exitCause, closes, incs, decs, recvs, resps >>
    /\ UNCHANGED netVars

\* (mutant) the test for the end of the stream is made on the stripped text
HandlerDispatchBlankBreaks(h) ==
    /\ Alive
    /\ pc[h] = "dispatch"
    /\ Decodable(data[h])
    /\ LET message == Strip(Decode(data[h])) IN
         IF message = << >>
         THEN /\ Leave(h, "eof")
         ELSE /\ \E r \in Responses(message, active_connections) :
                     response' = [response EXCEPT ![h] = r]
              /\ pc' = [pc EXCEPT ![h] = "send"]
              /\ UNCHANGED << current_connections, data, exitCause >>
    /\ UNCHANGED << lis, exitStatus, client,
                    active_connections, connection_lock, sock, tmp,
                    label, nextThread, welcomed,
                    closes, incs, decs, recvs, resps >>
    /\ UNCHANGED netVars

\* (mutant) the dispatcher is given the text as it was received
HandlerDispatchUntrimmed(h) ==
    /\ Alive
    /\ pc[h] = "dispatch"
    /\ Decodable(data[h])
    /\ LET message == Decode(data[h]) IN
         /\ \E r \in Responses(message, active_connections) :
                response' = [response EXCEPT ![h] = r]
    /\ pc' = [pc EXCEPT ![h] = "send"]
    /\ UNCHANGED << lis, exitStatus, client,
                    active_connections, connection_lock, sock, tmp,
                    current_connections, data, label, nextThread, welcomed,
                    exitCause, closes, incs, decs, recvs, resps >>
    /\ UNCHANGED netVars

\* The bytes are decoded and stripped, and process_message answers; the
\* status branch reads the counter.
HandlerDispatch(h) ==
    /\ Alive
    /\ pc[h] = "dispatch"
    /\ Decodable(data[h])
    /\ LET message == Strip(Decode(data[h])) IN
         /\ \E r \in Responses(message, active_connections) :
                response' = [response EXCEPT ![h] = r]
    /\ pc' = [pc EXCEPT ![h] = "send"]
    /\ UNCHANGED << lis, exitStatus, client,
                    active_connections, connection_lock, sock, tmp,
                    current_connections, data, label, nextThread, welcomed,
                    exitCause, closes, incs, decs, recvs, resps >>
    /\ UNCHANGED netVars

\* (mutant) the decode error is taken as fatal for the whole server
HandlerDecodeFailStopsServer(h) ==
    /\ Alive
    /\ pc[h] = "dispatch"
    /\ ~Decodable(data[h])
    /\ Leave(h, "decode")
    /\ lis' = "stopped"
    /\ UNCHANGED << exitStatus, client,
                    active_connections, connection_lock, sock, tmp,
                    label, nextThread,
                    welcomed, closes, incs, decs, recvs, resps >>
    /\ UNCHANGED netVars

\* (mutant) the decode error is swallowed and the loop goes on
HandlerDecodeFailSkips(h) ==
    /\ Alive
    /\ pc[h] = "dispatch"
    /\ ~Decodable(data[h])
    /\ data' = [data EXCEPT ![h] = << >>]
    /\ resps' = [resps EXCEPT ![h] = @ + 1]
    /\ pc' = [pc EXCEPT ![h] = "recv"]
    /\ UNCHANGED << lis, exitStatus, client,
                    active_connections, connection_lock, sock, tmp,
                    current_connections, response, label, nextThread,
                    welcomed, exitCause, closes, incs, decs, recvs >>
    /\ UNCHANGED netVars

\* decode raises UnicodeDecodeError, caught by `except Exception`.
HandlerDecodeFail(h) ==
    /\ Alive
    /\ pc[h] = "dispatch"
    /\ ~Decodable(data[h])
    /\ Leave(h, "decode")
    /\ UNCHANGED << lis, exitStatus, client,
                    active_connections, connection_lock, sock, tmp,
                    label, nextThread,
                    welcomed, closes, incs, decs, recvs, resps >>
    /\ UNCHANGED netVars

\* (mutant) the handler ends the session once it has sent the farewell
HandlerSendQuitCloses(h) ==
    /\ Alive
    /\ pc[h] = "send"
    /\ SockSend(h, Encode(response[h]))
    /\ resps' = [resps EXCEPT ![h] = @ + 1]
    /\ data' = [data EXCEPT ![h] = << >>]
    /\ response' = [response EXCEPT ![h] = << >>]
    /\ pc' = [pc EXCEPT ![h] =
                 IF response[h] = QuitResponse THEN "close" ELSE "recv"]
    /\ UNCHANGED << lis, exitStatus, client,
                    active_connections, connection_lock, sock, tmp,
                    current_connections, label, nextThread,
                    welcomed, exitCause, closes, incs, decs, recvs, peer,
                    toServer, budget >>

\* The response is sent; the loop goes back to recv.
HandlerSend(h) ==
    /\ Alive
    /\ pc[h] = "send"
    /\ SockSend(h, Encode(response[h]))
    /\ resps' = [resps EXCEPT ![h] = @ + 1]
    /\ data' = [data EXCEPT ![h] = << >>]
    /\ response' = [response EXCEPT ![h] = << >>]
    /\ pc' = [pc EXCEPT ![h] = "recv"]
    /\ UNCHANGED << lis, exitStatus, client,
                    active_connections, connection_lock, sock, tmp,
                    current_connections, label, nextThread,
                    welcomed, exitCause, closes, incs, decs, recvs, peer,
                    toServer, budget >>

\* Sending the response raises.
HandlerSendFail(h) ==
    /\ Alive
    /\ pc[h] = "send"
    /\ SockSendFails(h)
    /\ Leave(h, "send")
    /\ UNCHANGED << lis, exitStatus, client,
                    active_connections, connection_lock, sock, tmp,
                    label, nextThread,
                    welcomed, closes, incs, decs, recvs, resps >>
    /\ UNCHANGED netVars

\* finally: client_socket.close().  What the socket still buffered is
\* dropped, and the peer is followed no further.
HandlerClose(h) ==
    /\ Alive
    /\ pc[h] = "close"
    /\ sock' = [sock EXCEPT ![h] = "closed"]
    /\ closes' = [closes EXCEPT ![h] = @ + 1]
    /\ toServer' = [toServer EXCEPT ![h] = << >>]
    /\ toClient' = [toClient EXCEPT ![h] = << >>]
    /\ peer' = [peer EXCEPT ![h] = "gone"]
    /\ pc' = [pc EXCEPT ![h] = "dec_acq"]
    /\ UNCHANGED << lis, exitStatus, client,
                    active_connections, connection_lock, tmp,
                    current_connections, data, response, label, nextThread,
                    welcomed, exitCause, incs, decs, recvs, resps, budget >>

\* finally: `with connection_lock:` is entered and `-= 1` loads the counter.
HandlerExitAcquire(h) ==
    /\ Alive
    /\ pc[h] = "dec_acq"
    /\ LockAcquire(h)
    /\ tmp' = [tmp EXCEPT ![h] = active_connections]
    /\ pc' = [pc EXCEPT ![h] = "dec"]
    /\ UNCHANGED << lis, exitStatus, client,
                    active_connections, sock, current_connections, data,
                    response, label, nextThread, welcomed, exitCause, closes,
                    incs, decs, recvs, resps >>
    /\ UNCHANGED netVars

\* finally: `-= 1` stores and the lock is released; then the last print
\* reads the counter and the thread ends.  (The histories of the session
\* end with the thread.)
HandlerDecrement(h) ==
    /\ Alive
    /\ pc[h] = "dec"
    /\ active_connections' = Decremented(tmp[h])
    /\ decs' = [decs EXCEPT ![h] = @ + 1]
    /\ LockRelease(h)
    /\ tmp' = [tmp EXCEPT ![h] = 0]
    /\ welcomed' = [welcomed EXCEPT ![h] = FALSE]
    /\ exitCause' = [exitCause EXCEPT ![h] = "none"]
    /\ recvs' = [recvs EXCEPT ![h] = 0]
    /\ resps' = [resps EXCEPT ![h] = 0]
    /\ pc' = [pc EXCEPT ![h] = "done"]
    /\ UNCHANGED << lis, exitStatus, client,
                    sock, current_connections, data, response,
                    label, nextThread, closes, incs >>
    /\ UNCHANGED netVars

\* One step of handler thread h.
HandlerStep(h) ==
    \/ HandlerEnter(h)
    \/ HandlerIncrement(h)
    \/ HandlerWelcome(h)
    \/ HandlerWelcomeFail(h)
    \/ HandlerRecv(h)
    \/ HandlerRecvEof(h)
    \/ HandlerRecvReset(h)
    \/ HandlerDispatch(h)
    \/ HandlerDecodeFail(h)
    \/ HandlerSend(h)
    \/ HandlerSendFail(h)
    \/ HandlerClose(h)
    \/ HandlerExitAcquire(h)
    \/ HandlerDecrement(h)

\* -------------------------------------------------------------- the peers
\* A peer connects: the connection waits in the listener's queue.  The
\* connections are numbered in the order in which they connect.  A peer is
\* followed until the server has closed its socket ("gone"): what it does
\* afterwards does not reach the server.
ClientConnect(c) ==
    /\ lis = "listening"
    /\ peer[c] = "none"
    /\ \A d \in Conns : d < c => peer[d] # "none"
    /\ peer' = [peer EXCEPT ![c] = "open"]
    /\ UNCHANGED << toServer, toClient, budget >>
    /\ UNCHANGED serverVars

\* A peer sends one message.
ClientSend(c, m) ==
    /\ Alive
    /\ peer[c] = "open"
    /\ budget > 0
    /\ budget' = budget - 1
    /\ toServer' = [toServer EXCEPT ![c] = Append(@, m)]
    /\ UNCHANGED << peer, toClient >>
    /\ UNCHANGED serverVars

\* A peer reads one message the server sent.
ClientRecv(c) ==
    /\ Alive
    /\ peer[c] = "open"
    /\ toClient[c] # << >>
    /\ toClient' = [toClient EXCEPT ![c] = Tail(@)]
    /\ UNCHANGED << peer, toServer, budget >>
    /\ UNCHANGED serverVars

\* A peer closes its socket (graceful close).
ClientClose(c) ==
    /\ Alive
    /\ peer[c] = "open"
    /\ peer' = [peer EXCEPT ![c] = "closed"]
    /\ UNCHANGED << toServer, toClient, budget >>
    /\ UNCHANGED serverVars

\* A peer aborts its connection (reset).
ClientReset(c) ==
    /\ Alive
    /\ peer[c] = "open"
    /\ peer' = [peer EXCEPT ![c] = "reset"]
    /\ UNCHANGED << toServer, toClient, budget >>
    /\ UNCHANGED serverVars

\* ------------------------------------------------------- specifications
Next ==
    \/ Bind
    \/ BindFail
    \/ \E c \in Conns : Accept(c)
    \/ Interrupt
    \/ AcceptError
    \/ ProcessExit
    \/ \E h \in Conns : HandlerStep(h)
    \/ \E c \in Conns : ClientConnect(c)
    \/ \E c \in Conns : \E m \in ClientData : ClientSend(c, m)
    \/ \E c \in Conns : ClientRecv(c)
    \/ \E c \in Conns : ClientClose(c)
    \/ \E c \in Conns : ClientReset(c)

Spec == Init /\ [][Next]_vars

\* Every handler thread that can take a step eventually takes one.
FairSpec ==
    /\ InitWith(FairSends)
    /\ [][Next]_vars
    /\ \A h \in Conns : WF_vars(HandlerStep(h))

\* The handlers serve what the peers have sent, and the peers read the
\* responses; meanwhile any peer may close, and its handler cleans up.
DispatchNext ==
    \/ \E h \in Conns : HandlerRecv(h)
    \/ \E h \in Conns : HandlerDispatch(h)
    \/ \E h \in Conns : HandlerDecodeFail(h)
    \/ \E h \in Conns : HandlerSend(h)
    \/ \E h \in Conns : HandlerSendFail(h)
    \/ \E c \in Conns : ClientRecv(c)
    \/ \E c \in Conns : ClientClose(c)
    \/ \E h \in Conns : HandlerRecvEof(h)
    \/ \E h \in Conns : HandlerClose(h)
    \/ \E h \in Conns : HandlerExitAcquire(h)
    \/ \E h \in Conns : HandlerDecrement(h)

DispatchSpec == DispatchInit /\ [][DispatchNext]_vars

\* ----------------------------------------------------- the client program
\* The connection of the client program, the first one made.
ClientConn == 1

\* BUFFER_SIZE of the client: the most bytes one recv returns.
BUFFER_SIZE == 1024

\* A run of 999 letters "d" typed on one line, kept as one element of a
\* text: its echo is 25 + 999 + 1 bytes long, one more than BUFFER_SIZE.
LongRun == "d{999}"

\* A run of 1023 letters "d", kept as one element of a text.
LongerRun == "d{1023}"

\* A character of two bytes in UTF-8 (e acute, 0xC3 0xA9).
WideChar == "U+00E9"

\* The number of bytes of one element of a text in UTF-8 (the literals of
\* the server with their emoji, as len(s.encode()) gives them).
TokenSize(t) ==
    CASE t = LongRun -> 999
      [] t = LongerRun -> 1023
      [] t = WideChar -> 2
      [] t = Head(WelcomeMsg(ClientConn)) -> 66
      [] t = "Your connection ID: Thread-" -> 27
      [] t = "\nAvailable commands:\n" -> 21
      [] t = "- HELP: Show this help message\n" -> 31
      [] t = "- STATUS: Show server status\n" -> 29
      [] t = "- SPELL: Cast a random spell\n" -> 29
      [] t = "- QUIT: Disconnect from server\n" -> 31
      [] t = StatusPrefix -> 45
      [] t = SpellPrefix -> 16
      [] t = Head(QuitResponse) -> 51
      [] t = EchoPrefix -> 25
      [] t = "Lightning Bolt strikes!" -> 31
      [] t = "Fireball erupts!" -> 27
      [] t = "Ice Shard freezes the enemy!" -> 43
      [] t = "Dark Magic overwhelms!" -> 32
      [] t = "Healing Light restores health!" -> 38
      [] OTHER -> 1

RECURSIVE Size(_)
\* len(text.encode('utf-8'))
Size(text) ==
    IF text = << >> THEN 0 ELSE TokenSize(Head(text)) + Size(Tail(text))

RECURSIVE Flatten(_)
\* The byte stream made of the messages queued on a connection.
Flatten(msgs) ==
    IF msgs = << >> THEN << >> ELSE Head(msgs) \o Flatten(Tail(msgs))

RECURSIVE Upto(_, _)
\* What recv(n) returns of a stream that has bytes: as many as are there,
\* and at most n.
Upto(stream, n) ==
    IF stream = << >> \/ TokenSize(Head(stream)) > n THEN << >>
    ELSE << Head(stream) >> \o Upto(Tail(stream), n - TokenSize(Head(stream)))

\* client_socket.recv(BUFFER_SIZE) of the client program
ClientRead == Upto(Flatten(toClient[ClientConn]), BUFFER_SIZE)

\* (mutant) recv leaves what it returns in the stream
ClientUnreadPeeks == toClient[ClientConn]

\* what that recv leaves in the stream
ClientUnread ==
    LET stream == Flatten(toClient[ClientConn])
        rest == SubSeq(stream, Len(ClientRead) + 1, Len(stream))
    IN IF rest = << >> THEN << >> ELSE << rest >>

\* The server's end of the connection no longer exists: the server process
\* has ended (a handler closes its socket only after the client has).
ServerGone == lis = "exited"

\* everything but the client program and the network
serverState ==
    << lis, exitStatus, active_connections, connection_lock, pc, sock, tmp,
       current_connections, data, response, label, nextThread, welcomed,
       exitCause, closes, incs, decs, recvs, resps >>

\* main, 221-227: neither -m nor -i is a usage error, sys.exit(1).
MainArgs ==
    /\ client.pc = "args"
    /\ client' =
         IF client.message = << >> /\ ~client.interactive
         THEN [client EXCEPT !.pc = "done", !.status = 1]
         ELSE [client EXCEPT !.pc = "connect"]
    /\ UNCHANGED << serverState, netVars >>

\* connect_to_server, 40-52: connect succeeds, the socket is returned.
ConnectToServer ==
    /\ client.pc = "connect"
    /\ lis = "listening"
    /\ peer[ClientConn] = "none"
    /\ peer' = [peer EXCEPT ![ClientConn] = "open"]
    /\ client' = [client EXCEPT !.pc = "welcome", !.sock = "open",
                                !.connects = @ + 1]
    /\ UNCHANGED << serverState, toServer, toClient, budget >>

\* (mutant) a failed connect is tried again
ConnectFailsRetries ==
    /\ client.pc = "connect"
    /\ client' = [client EXCEPT !.connects = @ + 1]
    /\ UNCHANGED << serverState, netVars >>

\* connect_to_server, 54-64, and main, 232-234: connect raises (refused:
\* nothing listens; timeout or another error: at any time); the cause is
\* printed, None is returned and main ends with sys.exit(1).
ConnectFails ==
    /\ client.pc = "connect"
    /\ client' = [client EXCEPT !.pc = "done", !.connects = @ + 1,
                                !.status = 1]
    /\ UNCHANGED << serverState, netVars >>

\* Where main goes once the welcome read is over, 246-252.
AfterWelcome ==
    IF client.interactive THEN [pc |-> "input", user_input |-> << >>]
    ELSE [pc |-> "send", user_input |-> client.message]

\* (mutant) main goes to its mode without reading the welcome
MainWelcomeSkipsRead ==
    /\ client.pc = "welcome"
    /\ client' = [client EXCEPT !.pc = AfterWelcome.pc,
                                !.user_input = AfterWelcome.user_input]
    /\ UNCHANGED << serverState, netVars >>

\* main, 236-244: one recv for the welcome message; whatever it returns
\* (the bytes that are there, or nothing when the server has gone), main
\* goes on to its mode.
MainWelcome ==
    /\ client.pc = "welcome"
    /\ \/ /\ ~ServerGone
          /\ toClient[ClientConn] # << >>
          /\ toClient' = [toClient EXCEPT ![ClientConn] = ClientUnread]
       \/ /\ ServerGone
          /\ toClient' = toClient
    /\ client' = [client EXCEPT !.pc = AfterWelcome.pc,
                                !.user_input = AfterWelcome.user_input,
                                !.welcome = TRUE, !.recvs = @ + 1]
    /\ UNCHANGED << serverState, peer, toServer, budget >>

\* main, 238: the recv for the welcome raises (connection reset); the
\* exception leaves main through the finally block.
MainWelcomeFails ==
    /\ client.pc = "welcome"
    /\ ServerGone
    /\ client' = [client EXCEPT !.pc = "close", !.recvs = @ + 1,
                                !.crashed = TRUE]
    /\ UNCHANGED << serverState, netVars >>

\* (mutant) a blank line is sent like any other
InteractiveInputSendsBlank ==
    /\ client.pc = "input"
    /\ client.inputs # << >>
    /\ client' = [client EXCEPT !.inputs = Tail(@),
                                !.typed = Append(@, Head(client.inputs)),
                                !.user_input = Strip(Head(client.inputs)),
                                !.pc = "send"]
    /\ UNCHANGED << serverState, netVars >>

\* interactive_mode, 138-142: a line is read and stripped; a blank one is
\* skipped.
InteractiveInput ==
    /\ client.pc = "input"
    /\ client.inputs # << >>
    /\ LET user_input == Strip(Head(client.inputs)) IN
       client' = [client EXCEPT !.inputs = Tail(@),
                                !.typed = Append(@, Head(client.inputs)),
                                !.user_input = user_input,
                                !.pc = IF user_input = << >> THEN "input"
                                       ELSE "send"]
    /\ UNCHANGED << serverState, netVars >>

\* (mutant) the end of input is taken for a line to send
InteractiveEofSends ==
    /\ client.pc = "input"
    /\ client.inputs = << >>
    /\ client' = [client EXCEPT !.pc = "send", !.user_input = Quit]
    /\ UNCHANGED << serverState, netVars >>

\* interactive_mode, 138 and 156-161: input() raises EOFError at the end
\* of the input; the loop ends.
InteractiveEof ==
    /\ client.pc = "input"
    /\ client.inputs = << >>
    /\ client' = [client EXCEPT !.pc = "close"]
    /\ UNCHANGED << serverState, netVars >>

\* The operator presses Ctrl-C.  In interactive_mode (156-158) the
\* KeyboardInterrupt is caught and the loop ends; elsewhere it leaves main
\* through the finally block.
OperatorInterrupt ==
    /\ client.pc \in {"welcome", "input", "send", "recv"}
    /\ client' = [client EXCEPT
                    !.pc = "close",
                    !.crashed = ~(client.interactive
                                  /\ client.pc # "welcome")]
    /\ UNCHANGED << serverState, netVars >>

\* (mutant) the message is sent twice
SendMessageSendTwice ==
    /\ client.pc = "send"
    /\ toServer' = IF ServerGone THEN toServer
                   ELSE [toServer EXCEPT ![ClientConn] =
                           Append(Append(@, client.user_input),
                                  client.user_input)]
    /\ client' = [client EXCEPT !.pc = "recv",
                                !.sent = Append(Append(@, client.user_input),
                                                client.user_input)]
    /\ UNCHANGED << serverState, peer, toClient, budget >>

\* send_message, 88: send(message.encode()) returns.  (Bytes sent to a
\* server that has gone are lost.)
SendMessageSend ==
    /\ client.pc = "send"
    /\ toServer' = IF ServerGone THEN toServer
                   ELSE [toServer EXCEPT ![ClientConn] =
                           Append(@, client.user_input)]
    /\ client' = [client EXCEPT !.pc = "recv",
                                !.sent = Append(@, client.user_input)]
    /\ UNCHANGED << serverState, peer, toClient, budget >>

\* send_message, 88 and 108-113: send raises (broken pipe, connection
\* reset); None is returned, which ends either mode.
SendMessageSendFails ==
    /\ client.pc = "send"
    /\ ServerGone
    /\ client' = [client EXCEPT !.pc = "close"]
    /\ UNCHANGED << serverState, netVars >>

\* (mutant) the loop goes on after quit
AfterResponseNoQuit(none) ==
    IF ~client.interactive \/ none THEN "close" ELSE "input"

\* Where the client goes with the value of send_message: None ends either
\* mode; in interactive_mode (147-154) a line that is quit in any letter
\* case ends the loop.
AfterResponse(none) ==
    IF ~client.interactive \/ none \/ Lower(client.user_input) = Quit
    THEN "close" ELSE "input"

\* send_message, 93-106: one recv gives the response, or nothing when the
\* server has gone (None is returned).
SendMessageRecv ==
    /\ client.pc = "recv"
    /\ \/ /\ ~ServerGone
          /\ toClient[ClientConn] # << >>
          /\ toClient' = [toClient EXCEPT ![ClientConn] = ClientUnread]
          /\ client' = [client EXCEPT !.pc = AfterResponse(FALSE),
                                      !.got = Append(@, ClientRead),
                                      !.recvs = @ + 1]
       \/ /\ ServerGone
          /\ toClient' = toClient
          /\ client' = [client EXCEPT !.pc = AfterResponse(TRUE),
                                      !.got = Append(@, << >>),
                                      !.recvs = @ + 1]
    /\ UNCHANGED << serverState, peer, toServer, budget >>

\* send_message, 93 and 108-113: recv raises; None is returned.
SendMessageRecvFails ==
    /\ client.pc = "recv"
    /\ ServerGone
    /\ client' = [client EXCEPT !.pc = "close", !.recvs = @ + 1]
    /\ UNCHANGED << serverState, netVars >>

\* (mutant) the socket is left open at the end
MainCloseNot ==
    /\ client.pc = "close"
    /\ client' = [client EXCEPT !.pc = "done",
                                !.status = IF client.crashed THEN 1 ELSE 0]
    /\ UNCHANGED << serverState, netVars >>

\* main, 254-259: finally, client_socket.close(); the process ends, with
\* status 0 or, after an exception, with a traceback and status 1.
MainClose ==
    /\ client.pc = "close"
    /\ peer' = IF ServerGone THEN peer
               ELSE [peer EXCEPT ![ClientConn] = "closed"]
    /\ client' = [client EXCEPT !.pc = "done", !.sock = "closed",
                                !.closes = @ + 1,
                                !.status = IF client.crashed THEN 1 ELSE 0]
    /\ UNCHANGED << serverState, toServer, toClient, budget >>

\* The lines an operator types.
Lines ==
    { << >>, << " " >>, << "d" >>, << " ", "d", " " >>, Quit,
      << "Q", "u", "i", "t" >>, << LongRun >> }

\* The sequences of at most n lines.
LinesUpTo(n) == UNION { [1..k -> Lines] : k \in 0..n }

\* The command lines: -m with a text or -i with the lines the operator
\* will type, neither, or both.
Programs ==
    { ClientStart(m, FALSE, << >>) :
        m \in { << >>, << "d" >>, << " " >>, << LongRun >> } }
    \cup { ClientStart(m, TRUE, inputs) :
        m \in { << >>, << "d" >> }, inputs \in LinesUpTo(MaxInputs) }

ClientInit == \E program \in Programs : StartWith(0, program)

ClientProgram ==
    \/ MainArgs
    \/ ConnectToServer
    \/ ConnectFails
    \/ MainWelcome
    \/ MainWelcomeFails
    \/ InteractiveInput
    \/ InteractiveEof
    \/ OperatorInterrupt
    \/ SendMessageSend
    \/ SendMessageSendFails
    \/ SendMessageRecv
    \/ SendMessageRecvFails
    \/ MainClose

ClientNext ==
    \/ ClientProgram
    \/ Bind
    \/ Interrupt
    \/ ProcessExit
    \/ \E c \in Conns : Accept(c)
    \/ \E h \in Conns :
         \/ HandlerEnter(h)
         \/ HandlerIncrement(h)
         \/ HandlerWelcome(h)
         \/ HandlerWelcomeFail(h)
         \/ HandlerRecv(h)
         \/ HandlerRecvEof(h)
         \/ HandlerDispatch(h)
         \/ HandlerSend(h)
         \/ HandlerSendFail(h)
         \/ HandlerClose(h)
         \/ HandlerExitAcquire(h)
         \/ HandlerDecrement(h)

\* The client program run against the server.
ClientSpec == ClientInit /\ [][ClientNext]_vars

\* ------------------------------------------------- the stream of bytes
\* The first n bytes of a stream, for n at the end of an element or within
\* a character of two bytes: the first byte of a character that is cut is
\* not valid UTF-8 by itself.
RECURSIVE TakeBytes(_, _)
TakeBytes(stream, n) ==
    IF stream = << >> \/ n = 0 THEN << >>
    ELSE IF TokenSize(Head(stream)) <= n
    THEN << Head(stream) >>
             \o TakeBytes(Tail(stream), n - TokenSize(Head(stream)))
    ELSE << BadByte >>

\* The stream without its first n bytes: the last byte of a character that
\* is cut is not valid UTF-8 by itself.
RECURSIVE DropBytes(_, _)
DropBytes(stream, n) ==
    IF stream = << >> \/ n = 0 THEN stream
    ELSE IF TokenSize(Head(stream)) <= n
    THEN DropBytes(Tail(stream), n - TokenSize(Head(stream)))
    ELSE << BadByte >> \o Tail(stream)

\* How many bytes recv(BUFFER_SIZE) may return of a stream that has bytes:
\* at least one and at most BUFFER_SIZE of those that are there.  (The
\* sizes that end an element of the text or fall within a character of
\* two bytes.)
RecvSizes(stream) ==
    { n \in { Size(SubSeq(stream, 1, k)) : k \in 1..Len(stream) }
              \cup { Size(SubSeq(stream, 1, k - 1)) + 1 :
                       k \in { j \in 1..Len(stream) :
                                 stream[j] = WideChar } } :
        n <= BUFFER_SIZE }

\* recv returns bytes of the stream of the connection, wherever the peer's
\* messages begin and end in it: one message, several messages at once, or
\* the beginning of one.  (HandlerRecv is the case in which the messages
\* arrive one per recv.)
HandlerRecvStream(h) ==
    /\ Alive
    /\ pc[h] = "recv"
    /\ peer[h] # "reset"
    /\ toServer[h] # << >>
    /\ LET stream == Flatten(toServer[h]) IN
       \E n \in RecvSizes(stream) :
           /\ data' = [data EXCEPT ![h] = TakeBytes(stream, n)]
           /\ toServer' = [toServer EXCEPT ![h] =
                             IF DropBytes(stream, n) = << >> THEN << >>
                             ELSE << DropBytes(stream, n) >>]
    /\ recvs' = [recvs EXCEPT ![h] = @ + 1]
    /\ pc' = [pc EXCEPT ![h] = "dispatch"]
    /\ UNCHANGED << lis, exitStatus, client,
                    active_connections, connection_lock, sock, tmp,
                    current_connections, response, label, nextThread,
                    welcomed, exitCause, closes, incs, decs, resps,
                    peer, toClient, budget >>

\* What a peer sends in one message to a server that reads a stream.
StreamData == { << "d" >>, << "d", "\n" >>, << LongerRun, WideChar >> }

\* The sequences of one to n messages.
QueuedUpTo(n) == UNION { [1..k -> StreamData] : k \in 1..n }

\* Some connections are in session; the peer of the first has sent its
\* messages ahead of the server's receive.
StreamInit ==
    \E n \in Conns : \E sent \in QueuedUpTo(MaxQueued) :
        InSessionWith(n, sent)

StreamNext ==
    \/ \E h \in Conns : HandlerRecvStream(h)
    \/ \E h \in Conns : HandlerDispatch(h)
    \/ \E h \in Conns : HandlerDecodeFail(h)
    \/ \E h \in Conns : HandlerSend(h)
    \/ \E h \in Conns : HandlerSendFail(h)
    \/ \E c \in Conns : ClientRecv(c)
    \/ \E c \in Conns : ClientClose(c)
    \/ \E h \in Conns : HandlerRecvEof(h)
    \/ \E h \in Conns : HandlerClose(h)
    \/ \E h \in Conns : HandlerExitAcquire(h)
    \/ \E h \in Conns : HandlerDecrement(h)

\* The server in session, reading the byte stream of its connections.
StreamSpec == StreamInit /\ [][StreamNext]_vars


\* ================================================================ claims
\* The handlers whose connection was accepted and whose socket is open.
OpenSockets == { c \in Conns : sock[c] = "open" }

\* The handlers accepted that have not incremented the counter yet.
Entering == { c \in Conns : pc[c] # "none" /\ incs[c] = 0 }

\* The handlers that closed their socket and have not decremented yet.
Leaving == { c \in Conns : closes[c] = 1 /\ decs[c] = 0 }

\* C1 (as stated): in every reachable state the counter is non-negative and
\* equals the number of handlers whose connection has been accepted and
\* whose socket has not been closed.
C1_CounterEqualsOpenSockets ==
    /\ active_connections >= 0
    /\ active_connections = Cardinality(OpenSockets)

\* C1 (amended): in every reachable state the counter is non-negative and
\* equals the number of accepted connections with an open socket, less the
\* handlers that have not incremented yet, plus the handlers that closed
\* their socket and have not decremented yet; so it equals the number of
\* open sockets whenever no handler is entering or leaving.
C1_CounterTracksHandlers ==
    /\ active_connections >= 0
    /\ active_connections =
           Cardinality(OpenSockets) - Cardinality(Entering)
               + Cardinality(Leaving)
    /\ (Entering = {} /\ Leaving = {}) =>
           active_connections = Cardinality(OpenSockets)

\* A handler is accepted and not yet counted while another has closed its
\* socket and is still counted.
C1_Witness ==
    \E h, g \in Conns :
        /\ pc[h] = "start"
        /\ pc[g] = "dec_acq"
        /\ active_connections = 1
        /\ Cardinality(OpenSockets) = 1

\* C2: on every exit path a handler closes its socket exactly once and
\* decrements the counter exactly once, and it never decrements without
\* having incremented: a handler that left its try block, however it left,
\* goes through close and the decrement, and a handler that has ended has
\* closed once, incremented once and decremented once.
C2_CleanupExactlyOnce ==
    \A h \in Conns :
        /\ closes[h] <= 1
        /\ decs[h] <= incs[h]
        /\ incs[h] <= 1
        /\ exitCause[h] # "none" => pc[h] \in {"close", "dec_acq", "dec"}
        /\ pc[h] = "close" => closes[h] = 0 /\ decs[h] = 0 /\ sock[h] = "open"
        /\ pc[h] \in {"dec_acq", "dec"} =>
               closes[h] = 1 /\ decs[h] = 0 /\ sock[h] = "closed"
        /\ pc[h] = "done" =>
               /\ closes[h] = 1
               /\ incs[h] = 1
               /\ decs[h] = 1
               /\ sock[h] = "closed"

\* One handler has ended after its cleanup, another is in its cleanup after
\* the welcome message could not be sent.
C2_Witness ==
    \E h, g \in Conns :
        /\ pc[h] = "done"
        /\ closes[h] = 1
        /\ decs[h] = 1
        /\ pc[g] = "dec"
        /\ exitCause[g] = "send"
        /\ ~welcomed[g]

RECURSIVE ParseInt(_)
\* int(digits), for the digits of a non-negative number
ParseInt(digits) ==
    IF digits = << >> THEN 0
    ELSE 10 * ParseInt(SubSeq(digits, 1, Len(digits) - 1))
             + ((CHOOSE i \in 1..10 : DigitChars[i] = digits[Len(digits)]) - 1)

\* The count a status response reports.
StatusCount(resp) == ParseInt(SubSeq(resp, 2, Len(resp) - 1))

IsStatusResponse(resp) ==
    /\ Len(resp) >= 3
    /\ resp[1] = StatusPrefix
    /\ \A i \in 2..(Len(resp) - 1) : \E d \in 1..10 : DigitChars[d] = resp[i]

\* No accept or close is in flight: every accepted connection's handler has
\* incremented, and no handler is between leaving its loop and decrementing.
Steady ==
    \A c \in Conns : pc[c] \notin {"start", "inc", "close", "dec_acq", "dec"}

\* Handler h dispatches a status command in this step.
StatusStep(h) ==
    /\ pc[h] = "dispatch"
    /\ pc'[h] = "send"
    /\ Lower(Strip(Decode(data[h]))) = Status

\* C3: when N connections are in session and no accept or close is in
\* flight, a status command dispatched by any of them gets a response that
\* reports exactly N.
C3_SteadyStatusReportsN ==
    [][ \A h \in Conns :
            (Steady /\ StatusStep(h)) =>
                /\ IsStatusResponse(response'[h])
                /\ StatusCount(response'[h]) =
                       Cardinality({ c \in Conns : InSession(c) }) ]_vars

\* Two clients are connected, nothing is in flight, and the response to the
\* status command of the first reports 2.
C3_Witness ==
    /\ Steady
    /\ InSession(1)
    /\ InSession(2)
    /\ pc[1] = "send"
    /\ response[1] = StatusResponse(2)


\* The peer of an accepted connection has disconnected, gracefully or by
\* reset.
Disconnected(c) == pc[c] # "none" /\ peer[c] \in {"closed", "reset"}

\* The connection's socket is closed and its handler has decremented once.
Released(c) == sock[c] = "closed" /\ closes[c] = 1 /\ decs[c] = 1

\* Every accepted connection's handler has ended.
AllEnded == \A c \in Conns : pc[c] \in {"none", "done"}

\* C4: after the peer of an accepted connection disconnects, gracefully or
\* by reset, the handler (scheduled fairly, for as long as the server
\* process runs) eventually closes the socket and decrements the counter
\* once for it; and whenever all the connections opened so far have been
\* closed again the counter is back at its initial value.
C4_DisconnectReleases ==
    /\ \A c \in Conns : Disconnected(c) ~> (Released(c) \/ ~Alive)
    /\ [](AllEnded => active_connections = 0)

\* One connection has been released; on the other the peer has sent quit
\* and closed, and the farewell is still to be sent.
C4_Witness ==
    /\ Released(1)
    /\ pc[1] = "done"
    /\ active_connections = 1
    /\ Disconnected(2)
    /\ pc[2] = "send"
    /\ response[2] = QuitResponse

\* The exit paths that are I/O failures of a connection.
Failures == {"reset", "decode", "send"}

\* C5: a step of a handler that fails on its connection (reset, broken
\* pipe, decode error), and every step of its cleanup, changes no other
\* handler's position, socket or session state and no other connection, and
\* leaves the listener as it is.
C5_FailureIsLocal ==
    [][ \A h \in Conns :
            (HandlerStep(h) /\ (exitCause[h] \in Failures
                                   \/ exitCause'[h] \in Failures)) =>
                /\ lis' = lis
                /\ \A g \in Conns \ {h} :
                       /\ pc'[g] = pc[g]
                       /\ sock'[g] = sock[g]
                       /\ data'[g] = data[g]
                       /\ response'[g] = response[g]
                       /\ welcomed'[g] = welcomed[g]
                       /\ exitCause'[g] = exitCause[g]
                       /\ closes'[g] = closes[g]
                       /\ recvs'[g] = recvs[g]
                       /\ resps'[g] = resps[g]
                       /\ peer'[g] = peer[g]
                       /\ toServer'[g] = toServer[g]
                       /\ toClient'[g] = toClient[g] ]_vars

\* A handler has failed on undecodable bytes and closed its socket while
\* another is in session with its socket open and the listener listens.
C5_Witness ==
    \E h, g \in Conns :
        /\ exitCause[h] = "decode"
        /\ sock[h] = "closed"
        /\ InSession(g)
        /\ sock[g] = "open"
        /\ lis = "listening"

\* Connection c is the oldest in the listener's queue.
Queued(c) ==
    /\ peer[c] # "none"
    /\ pc[c] = "none"
    /\ \A d \in Conns : d < c => pc[d] # "none"

\* C6: the listener never waits for a handler: while it listens, the oldest
\* queued connection can be accepted at once, whatever the handlers of the
\* connections accepted before are doing.
C6_AcceptNeverWaits ==
    \A c \in Conns : (lis = "listening" /\ Queued(c)) => ENABLED Accept(c)

\* A connection has been accepted while the handler of an earlier one is
\* blocked in recv on a silent peer.
C6_Witness ==
    /\ pc[1] = "recv"
    /\ peer[1] = "open"
    /\ toServer[1] = << >>
    /\ pc[2] = "start"
    /\ lis = "listening"

\* The responses process_message can give to the bytes of one receive.
Answers(bytes) ==
    UNION { Responses(Strip(Decode(bytes)), n) : n \in 0..MaxConns }

\* C7: on each connection the response to request N is sent before the
\* receive that reads request N+1, and the responses go out in the order of
\* the requests: a handler about to receive has answered every request it
\* read, it never owes more than one response, and the response it is about
\* to send answers the request it read last.
C7_ResponsesInOrder ==
    \A h \in Conns :
        /\ resps[h] <= recvs[h]
        /\ recvs[h] <= resps[h] + 1
        /\ pc[h] = "recv" => recvs[h] = resps[h]
        /\ pc[h] \in {"dispatch", "send"} => recvs[h] = resps[h] + 1
        /\ pc[h] = "send" => response[h] \in Answers(data[h])

\* The second request of a connection has been read after the first was
\* answered, and its response is about to be sent.
C7_Witness ==
    \E h \in Conns :
        /\ pc[h] = "send"
        /\ recvs[h] = 2
        /\ resps[h] = 1


\* Handler h loads the counter for `+= 1` or `-= 1` in this step.
CounterLoad(h) ==
    \/ pc[h] = "start" /\ pc'[h] = "inc"
    \/ pc[h] = "dec_acq" /\ pc'[h] = "dec"

\* Handler h stores the counter (`+= 1`, `-= 1`) in this step.
CounterStore(h) ==
    \/ pc[h] = "inc" /\ pc'[h] = "welcome"
    \/ pc[h] = "dec" /\ pc'[h] = "done"

\* Handler h reads the counter for its last print in this step, after the
\* `with` block of the decrement.
LogRead(h) == pc[h] = "dec" /\ pc'[h] = "done"

\* C8 (as stated): every access to the counter is made while holding the
\* lock: the increment, the decrement, the read of the status command and
\* the read for the print after the cleanup.
C8_EveryAccessLocked ==
    [][ \A h \in Conns :
            /\ CounterLoad(h) => connection_lock' = h
            /\ CounterStore(h) => connection_lock = h
            /\ StatusStep(h) => connection_lock = h
            /\ LogRead(h) => connection_lock' = h ]_vars

\* C8 (amended): every write of the counter (the increment and the
\* decrement, each with the load it starts from) is made while holding the
\* lock, and the counter changes in no other step; the read of the status
\* command and the read for the print after the cleanup are made without
\* the lock.
C8_WritesLocked ==
    [][ /\ \A h \in Conns :
              /\ CounterLoad(h) => connection_lock' = h
              /\ CounterStore(h) => connection_lock = h
              /\ StatusStep(h) => connection_lock # h
              /\ LogRead(h) => connection_lock' # h
        /\ (Alive' /\ active_connections' # active_connections) =>
               \E h \in Conns : CounterStore(h) /\ connection_lock = h ]_vars

\* A handler holds the lock for its increment while another has just read
\* the counter for a status response.
C8_Witness ==
    \E h, g \in Conns :
        /\ connection_lock = h
        /\ pc[h] = "inc"
        /\ pc[g] = "send"
        /\ IsStatusResponse(response[g])

\* C9: no thread that holds the lock is in a blocking socket operation: the
\* holder is a handler between the load and the store of its increment or
\* of its decrement, never the listener and never a handler at accept,
\* send, recv or close.
C9_NoBlockingUnderLock ==
    /\ connection_lock \in Conns \cup {NoOwner}
    /\ \A h \in Conns :
           connection_lock = h =>
               /\ pc[h] \in {"inc", "dec"}
               /\ pc[h] \notin {"welcome", "recv", "send", "close"}

\* A handler holds the lock for its decrement while another is blocked in
\* recv on a silent peer.
C9_Witness ==
    \E h, g \in Conns :
        /\ connection_lock = h
        /\ pc[h] = "dec"
        /\ pc[g] = "recv"
        /\ peer[g] = "open"
        /\ toServer[g] = << >>

\* The state of the handler's state machine.  (WELCOMED is passed within
\* the step that sends the welcome message: the loop's recv follows it.)
HState(h) ==
    CASE pc[h] = "none" -> "NONE"
      [] pc[h] \in {"start", "inc", "welcome"} -> "ACCEPTED"
      [] pc[h] = "recv" -> "AWAITING_COMMAND"
      [] pc[h] \in {"dispatch", "send"} -> "DISPATCHING"
      [] OTHER -> "CLOSED"

HEdges ==
    { << "NONE", "ACCEPTED" >>,
      << "ACCEPTED", "AWAITING_COMMAND" >>,
      << "AWAITING_COMMAND", "DISPATCHING" >>,
      << "DISPATCHING", "AWAITING_COMMAND" >>,
      << "ACCEPTED", "CLOSED" >>,
      << "AWAITING_COMMAND", "CLOSED" >>,
      << "DISPATCHING", "CLOSED" >> }

\* Handler h is running and cannot take a step.
Suspended(h) ==
    /\ Alive
    /\ pc[h] \notin {"none", "done"}
    /\ ~ENABLED HandlerStep(h)

\* The welcome is sent before the first receive and before any response.
WelcomeFirst(h) ==
    /\ (recvs[h] > 0 \/ resps[h] > 0) => welcomed[h]
    /\ HState(h) \in {"AWAITING_COMMAND", "DISPATCHING"} => welcomed[h]
    /\ HState(h) = "ACCEPTED" => ~welcomed[h]

\* C10 (as stated, its part about states): the welcome is sent before the
\* first receive and before any response, and the blocking receive in
\* AWAITING_COMMAND is the only point at which a handler suspends (read in
\* the claim's favour: the only socket operation in which it suspends, the
\* wait for the lock left aside).
C10_OnlyRecvSuspends ==
    \A h \in Conns :
        /\ WelcomeFirst(h)
        /\ (Suspended(h) /\ pc[h] \notin {"start", "dec_acq"}) =>
               HState(h) = "AWAITING_COMMAND"

\* C10 (amended): each handler follows ACCEPTED -> WELCOMED ->
\* AWAITING_COMMAND <-> DISPATCHING, with CLOSED terminal for as long as the
\* process runs and entered from ACCEPTED, AWAITING_COMMAND and DISPATCHING
\* alone; the welcome is sent before the first receive and before any
\* response; and a handler suspends only in the blocking receive of
\* AWAITING_COMMAND with nothing to read from an open peer, in a blocking
\* send (of the welcome or of a response) to an open peer whose buffer is
\* full, or at a `with connection_lock:` while another handler holds the
\* lock.
C10_StateMachine ==
    /\ [][ Alive' =>
             \A h \in Conns :
                 \/ HState(h)' = HState(h)
                 \/ << HState(h), HState(h)' >> \in HEdges ]_vars
    /\ [](\A h \in Conns :
             /\ WelcomeFirst(h)
             /\ Suspended(h) =>
                    \/ /\ pc[h] = "recv"
                       /\ peer[h] = "open"
                       /\ toServer[h] = << >>
                    \/ /\ pc[h] \in {"welcome", "send"}
                       /\ peer[h] = "open"
                       /\ Len(toClient[h]) = SendCap
                    \/ /\ pc[h] \in {"start", "dec_acq"}
                       /\ connection_lock \in Conns \ {h})

\* A handler is suspended in the send of a response: its peer is open and
\* has not read what was sent before.
C10_Witness ==
    \E h \in Conns :
        /\ Suspended(h)
        /\ pc[h] = "send"
        /\ welcomed[h]
        /\ peer[h] = "open"


\* The ways a handler leaves its loop: all are events of its own connection.
ExitCauses == {"eof", "reset", "decode", "send"}

\* Handler h leaves its session in this step for its cleanup, on an event of
\* its own connection.
LeavesOnOwnPeer(h) == pc'[h] = "close" /\ exitCause'[h] \in ExitCauses

\* C11 (as stated): after a requested shutdown the handlers in flight are
\* not force-terminated: a handler in session stays in session until it
\* goes to its cleanup because its own peer disconnected or errored.
C11_HandlersDrainNaturally ==
    [][ \A h \in Conns :
            (lis = "stopped" /\ InSession(h)) =>
                InSession(h)' \/ LeavesOnOwnPeer(h) ]_vars

\* C11 (amended): the interrupt ends the accept loop and closes the
\* listening socket, and no connection is accepted afterwards; the shutdown
\* step itself changes no handler, socket or counter, and for as long as the
\* process runs a handler in flight keeps serving (its receive and its
\* dispatch stay enabled) and leaves its session only for its cleanup on an
\* event of its own connection; but the process exit that follows the
\* shutdown ends every handler thread wherever it is.
C11_ShutdownStopsAccepts ==
    /\ [][ /\ (lis = "listening" /\ lis' = "stopped") =>
                 UNCHANGED << pc, sock, active_connections, connection_lock,
                              peer, toServer, toClient, closes, incs, decs >>
           /\ lis # "listening" =>
                 \A c \in Conns : pc[c] = "none" => pc'[c] = "none"
           /\ \A h \in Conns :
                 (lis = "stopped" /\ InSession(h)) =>
                     \/ InSession(h)'
                     \/ LeavesOnOwnPeer(h)
                     \/ lis' = "exited"
           /\ (lis = "stopped" /\ lis' = "exited") =>
                 \A h \in Conns : pc'[h] = "none" /\ sock'[h] = "none" ]_vars
    /\ [](lis = "stopped" =>
             \A h \in Conns :
                 /\ (pc[h] = "recv" /\ peer[h] = "open"
                        /\ toServer[h] # << >>) => ENABLED HandlerRecv(h)
                 /\ pc[h] = "dispatch" =>
                        ENABLED (HandlerDispatch(h) \/ HandlerDecodeFail(h)))

\* After the shutdown one handler is about to answer a request while
\* another is in its cleanup because its peer closed.
C11_Witness ==
    /\ lis = "stopped"
    /\ \E h, g \in Conns :
           /\ pc[h] = "send"
           /\ recvs[h] = 1
           /\ pc[g] = "dec_acq"
           /\ exitCause[g] = "eof"


\* The message is the word in some spelling of upper and lower case.
IsCaseVariant(message, word) ==
    /\ Len(message) = Len(word)
    /\ \A i \in 1..Len(word) : message[i] \in {word[i], UpperChar(word[i])}

IsSpellResponse(resp) ==
    /\ Len(resp) = 3
    /\ resp[1] = SpellPrefix
    /\ resp[2] \in Spells
    /\ resp[3] = "\n"

\* The response has the shape of the keyword's branch.
HasShape(resp, word) ==
    CASE word = Help -> resp = HelpResponse
      [] word = Status -> IsStatusResponse(resp)
      [] word = Spell -> IsSpellResponse(resp)
      [] word = Quit -> resp = QuitResponse

\* C12: the dispatcher is case-insensitive on the four keywords: for a
\* message that is help, status, spell or quit in any spelling of upper and
\* lower case, the response is one the lower-case keyword can get (for
\* status, up to the counter's value) and has the shape of its branch.
C12_CaseInsensitiveKeywords ==
    \A h \in Conns :
        pc[h] = "send" =>
            \A word \in Keywords :
                IsCaseVariant(Strip(Decode(data[h])), word) =>
                    /\ response[h] \in Answers(Encode(word))
                    /\ HasShape(response[h], word)

\* The second request of a connection is status in mixed case, and its
\* response reports the two connections in session.
C12_Witness ==
    /\ pc[1] = "send"
    /\ recvs[1] = 2
    /\ data[1] = << "s", "T", "a", "T", "U", "s" >>
    /\ response[1] = StatusResponse(2)


\* str.isprintable(): no line end, tab or undecodable byte in the text.
Printable(text) ==
    \A i \in 1..Len(text) : text[i] \notin {"\n", "\t", "\r", BadByte}

\* `sub` occurs in `text`.
Contains(text, sub) ==
    \E i \in 0..(Len(text) - Len(sub)) :
        SubSeq(text, i + 1, i + Len(sub)) = sub

\* The characters of a response, with the blank that ends the echo prefix
\* as a character of its own.
ResponseChars(resp) ==
    IF resp # << >> /\ resp[1] = EchoPrefix
    THEN << "[Echo from Mage's Tower]", " " >> \o Tail(resp)
    ELSE resp

\* Handler h is about to answer a printable, non-empty text that is not a
\* keyword (in any spelling, with or without whitespace around it).
AnswersFreeText(h) ==
    /\ pc[h] = "send"
    /\ data[h] # << >>
    /\ Decodable(data[h])
    /\ Printable(Decode(data[h]))
    /\ Lower(Strip(Decode(data[h]))) \notin Keywords

\* C13 (as stated): for every printable, non-empty text s that is not a
\* keyword, the response to s starts with the fixed prefix and contains s
\* unchanged.
C13_EchoContainsInput ==
    \A h \in Conns :
        AnswersFreeText(h) =>
            /\ response[h][1] = EchoPrefix
            /\ Contains(ResponseChars(response[h]), Decode(data[h]))

\* C13 (amended): for every printable, non-empty text s that is not a
\* keyword, the response to s is the fixed prefix, then s without its
\* leading and trailing whitespace, then a line end; so it contains s
\* unchanged whenever s neither starts nor ends with whitespace.
C13_EchoOfTrimmedInput ==
    \A h \in Conns :
        AnswersFreeText(h) =>
            LET s == Decode(data[h]) IN
              /\ response[h] = << EchoPrefix >> \o Strip(s) \o << "\n" >>
              /\ Contains(ResponseChars(response[h]), Strip(s))
              /\ (s[1] \notin Whitespace /\ s[Len(s)] \notin Whitespace) =>
                     /\ SubSeq(response[h], 2, Len(s) + 1) = s
                     /\ Contains(ResponseChars(response[h]), s)

\* A text of two letters in different cases with a blank between them is
\* about to be echoed as it was sent.
C13_Witness ==
    /\ pc[1] = "send"
    /\ data[1] = << "d", " ", "D" >>
    /\ response[1] = << EchoPrefix, "d", " ", "D", "\n" >>


\* The lines of the help text that name the commands, in their order.
HelpLines ==
    << "- HELP: Show this help message\n",
       "- STATUS: Show server status\n",
       "- SPELL: Cast a random spell\n",
       "- QUIT: Disconnect from server\n" >>

\* C14: the response to help is always the same fixed text, a heading and
\* one line for each of HELP, STATUS, SPELL and QUIT, whatever the number of
\* commands the connection sent before, the value of the counter and the
\* state of the other connections.
C14_HelpIsFixed ==
    \A h \in Conns :
        (pc[h] = "send" /\ IsCaseVariant(Strip(Decode(data[h])), Help)) =>
            /\ response[h] = << "\nAvailable commands:\n" >> \o HelpLines
            /\ response[h] = HelpResponse

\* A connection sends help for the second time, its first help text still
\* unread, after another connection has closed and the counter has changed:
\* the response is the same text.
C14_Witness ==
    /\ pc[1] = "send"
    /\ recvs[1] = 2
    /\ data[1] = Help
    /\ toClient[1] = << HelpResponse >>
    /\ response[1] = HelpResponse
    /\ pc[2] = "done"
    /\ active_connections = 1


\* Handler h runs process_message in this step.
DispatchStep(h) == pc[h] = "dispatch" /\ pc'[h] = "send"

\* Handler h ends its send of the farewell in this step, the process going
\* on.
FarewellStep(h) ==
    /\ pc[h] = "send"
    /\ response[h] = QuitResponse
    /\ pc'[h] # "send"
    /\ Alive'

\* C15: no dispatched command changes server state: the step that runs
\* process_message leaves the counter, the lock, the sockets and the
\* listener as they are, whatever the message; and after quit the handler
\* sends the farewell and is back in its receive loop with its socket open
\* and the counter unchanged (unless the send fails because the peer has
\* gone), which it leaves for its cleanup only when its peer has
\* disconnected.
C15_CommandsChangeNothing ==
    [][ \A h \in Conns :
            /\ DispatchStep(h) =>
                  UNCHANGED << active_connections, connection_lock, sock,
                               lis, closes, incs, decs >>
            /\ FarewellStep(h) =>
                  /\ UNCHANGED << active_connections, sock, closes, decs >>
                  /\ \/ pc'[h] = "recv"
                     \/ /\ SockSendFails(h)
                        /\ pc'[h] = "close"
                        /\ exitCause'[h] = "send"
            /\ (pc[h] = "recv" /\ pc'[h] = "close") =>
                  peer[h] \in {"closed", "reset"} ]_vars

\* The farewell has been sent and not yet read, and the handler is back in
\* recv: its socket is open, its peer connected, and the counter counts it.
C15_Witness ==
    \E h \in Conns :
        /\ pc[h] = "recv"
        /\ resps[h] = 1
        /\ toClient[h] = << QuitResponse >>
        /\ sock[h] = "open"
        /\ peer[h] = "open"
        /\ active_connections = Cardinality({ c \in Conns : InSession(c) })
        /\ active_connections >= 1


\* The bytes of a receive that are text of whitespace only.
Blank(bytes) ==
    /\ bytes # << >>
    /\ Decodable(bytes)
    /\ Strip(Decode(bytes)) = << >>

\* The echo of the empty message: the prefix followed by nothing but the
\* line end.
EmptyEcho == << EchoPrefix, "\n" >>

\* C16: a non-empty receive of whitespace only is dispatched and answered:
\* the handler goes on to send, the response is the echo prefix followed by
\* nothing, and once it is sent the handler is in recv again with its
\* socket open (it leaves for its cleanup only if the send fails because
\* the peer has gone).
C16_BlankIsEchoed ==
    [][ \A h \in Conns :
            /\ (pc[h] = "dispatch" /\ Blank(data[h])
                   /\ pc'[h] # "dispatch") =>
                  /\ pc'[h] = "send"
                  /\ response'[h] = EmptyEcho
                  /\ sock'[h] = "open"
            /\ (pc[h] = "send" /\ Blank(data[h]) /\ pc'[h] # "send") =>
                  /\ sock'[h] = "open"
                  /\ \/ /\ pc'[h] = "recv"
                        /\ resps'[h] = resps[h] + 1
                        /\ \/ toClient'[h] = Append(toClient[h], EmptyEcho)
                           \/ peer[h] = "closed"
                     \/ /\ SockSendFails(h)
                        /\ pc'[h] = "close" ]_vars

\* A message of one blank has been answered with the bare prefix, which the
\* peer has not read yet, and the handler is in recv with its socket open.
C16_Witness ==
    \E h \in Conns :
        /\ pc[h] = "recv"
        /\ resps[h] >= 1
        /\ toClient[h] = << EmptyEcho >>
        /\ sock[h] = "open"
        /\ peer[h] = "open"


\* The recv of handler h returns no bytes: its peer has closed and nothing
\* it sent is left to read.
AtEof(h) == pc[h] = "recv" /\ peer[h] = "closed" /\ toServer[h] = << >>

\* The steps of the cleanup: close the socket, take the lock, decrement.
CleanupStep(h) ==
    \/ /\ pc[h] = "close"
       /\ pc'[h] = "dec_acq"
       /\ closes'[h] = closes[h] + 1
       /\ sock'[h] = "closed"
    \/ /\ pc[h] = "dec_acq"
       /\ pc'[h] = "dec"
    \/ /\ pc[h] = "dec"
       /\ pc'[h] = "done"
       /\ decs'[h] = decs[h] + 1
       /\ active_connections' = active_connections - 1

\* C17: when the receive of a handler returns no bytes the handler leaves
\* its loop at once, without calling the dispatcher and without sending:
\* no request is counted and no response computed or sent in that step, and
\* from then on, while the process runs, the handler only closes its socket
\* and decrements the counter.
C17_EofEndsWithoutResponse ==
    /\ [][ \A h \in Conns :
              /\ (AtEof(h) /\ pc'[h] # "recv" /\ Alive') =>
                    /\ pc'[h] = "close"
                    /\ exitCause'[h] = "eof"
                    /\ recvs'[h] = recvs[h]
                    /\ resps'[h] = resps[h]
                    /\ response'[h] = << >>
                    /\ toClient'[h] = toClient[h]
              /\ (exitCause[h] = "eof" /\ Alive') =>
                    /\ pc'[h] = pc[h] \/ CleanupStep(h)
                    /\ Len(toClient'[h]) <= Len(toClient[h])
                    /\ response'[h] = << >> ]_vars
    /\ [](\A h \in Conns :
             exitCause[h] = "eof" =>
                 /\ pc[h] \in {"close", "dec_acq", "dec"}
                 /\ response[h] = << >>
                 /\ recvs[h] = resps[h])

\* A handler that answered one request has read the end of the stream and
\* is about to decrement the counter.
C17_Witness ==
    \E h \in Conns :
        /\ exitCause[h] = "eof"
        /\ pc[h] = "dec"
        /\ recvs[h] = 1
        /\ resps[h] = 1
        /\ sock[h] = "closed"


\* Handler h has received bytes that are not text.
AtDecodeError(h) == pc[h] = "dispatch" /\ ~Decodable(data[h])

\* C18: when the bytes a handler received cannot be decoded, the handler
\* leaves its loop: no response is computed or sent for that receive, no
\* further receive is made, the only steps that follow are those of the
\* cleanup, and (the handler being scheduled, for as long as the process
\* runs) the socket is closed and the counter decremented once.
C18_DecodeFailureCloses ==
    /\ [][ \A h \in Conns :
              /\ (AtDecodeError(h) /\ pc'[h] # "dispatch" /\ Alive') =>
                    /\ pc'[h] = "close"
                    /\ exitCause'[h] = "decode"
                    /\ resps'[h] = resps[h]
                    /\ response'[h] = << >>
                    /\ toClient'[h] = toClient[h]
              /\ (exitCause[h] = "decode" /\ Alive') =>
                    /\ pc'[h] = pc[h] \/ CleanupStep(h)
                    /\ Len(toClient'[h]) <= Len(toClient[h])
                    /\ recvs'[h] = recvs[h] \/ pc'[h] = "done" ]_vars
    /\ \A h \in Conns : AtDecodeError(h) ~> (Released(h) \/ ~Alive)

\* A handler has failed to decode its first request and closed its socket
\* without a response; its decrement is still to come.
C18_Witness ==
    \E h \in Conns :
        /\ exitCause[h] = "decode"
        /\ pc[h] = "dec_acq"
        /\ sock[h] = "closed"
        /\ recvs[h] = 1
        /\ resps[h] = 0
        /\ active_connections >= 1


\* C19 (as stated): if binding or listening fails at startup, no connection
\* is accepted and the process terminates with a non-zero exit status.
C19_BindFailureExitsNonZero ==
    [][ /\ lis = "failed" => \A c \in Conns : pc'[c] = "none"
        /\ (lis = "failed" /\ lis' = "exited") => exitStatus' > 0 ]_vars

\* C20 (as stated): after the failure of an individual accept call the
\* accept loop continues: a connection that waits in the listener's queue
\* can still be accepted.
C20_AcceptFailureContinues ==
    \A c \in Conns : (lis = "errored" /\ Queued(c)) => ENABLED Accept(c)

\* ---------------------------------------------------------------- C21
\* C21: when the connect of the client program has failed, the program has
\* called connect once and never again, has sent nothing, has received
\* nothing, has no socket to close, and has ended with the exit status 1
\* and without a traceback.
C21_ConnectFailureExits ==
    (client.connects > 0 /\ client.sock = "none") =>
        /\ client.connects = 1
        /\ client.pc = "done"
        /\ client.status = 1
        /\ ~client.crashed
        /\ client.sent = << >>
        /\ client.recvs = 0
        /\ client.closes = 0
        /\ toServer[ClientConn] = << >>

\* A connect has failed although the server was listening (a timeout).
C21_Witness ==
    /\ client.connects = 1
    /\ client.sock = "none"
    /\ client.status = 1
    /\ lis = "listening"

\* ---------------------------------------------------------------- C22
\* C22: every send of the client program happens after the read of the
\* welcome, and when the program sends for the first time it has made
\* exactly one receive, that read.
C22_WelcomeReadBeforeSend ==
    [][ (client'.sent # client.sent) =>
          /\ client.welcome
          /\ client.connects = 1
          /\ (client.sent = << >> => client.recvs = 1) ]_vars

\* The first message has been sent, after one receive.
C22_Witness ==
    /\ Len(client.sent) = 1
    /\ client.welcome
    /\ client.recvs = 1
    /\ toServer[ClientConn] = client.sent

\* ---------------------------------------------------------------- C23
\* The client program runs in single-message mode.
SingleMode == client.pc # "idle" /\ ~client.interactive

\* C23: in single-message mode the program never sends anything but the
\* message of its command line, and never more than once; after the read
\* of the welcome it receives at most once, and only after its send; and
\* when it comes to close its socket, the server still running and the
\* operator not having interrupted it, it has sent that one message and
\* made that one receive.
C23_SingleMessageExchange ==
    /\ [](SingleMode =>
            /\ Len(client.sent) <= 1
            /\ \A i \in 1..Len(client.sent) : client.sent[i] = client.message
            /\ client.recvs <= 2
            /\ Len(client.got) <= Len(client.sent))
    /\ [][ (SingleMode /\ client'.closes # client.closes
              /\ ~client.crashed /\ ~ServerGone) =>
             /\ client.sent = << client.message >>
             /\ client.recvs = 2
             /\ Len(client.got) = 1
             /\ client'.closes = 1
             /\ client'.pc = "done" ]_vars

\* A single message has been sent and answered, and the socket closed.
C23_Witness ==
    /\ SingleMode
    /\ client.pc = "done"
    /\ client.sent = << << "d" >> >>
    /\ client.got = << EchoResponse(<< "d" >>) >>
    /\ client.recvs = 2
    /\ client.closes = 1

\* ---------------------------------------------------------------- C24
\* The client program runs in interactive mode.
InteractiveMode == client.pc # "idle" /\ client.interactive

\* The text has no white space at either end.
Trimmed(text) ==
    text = << >> \/ (Head(text) \notin Whitespace
                     /\ text[Len(text)] \notin Whitespace)

\* The lines with their white space at both ends removed.
TrimmedLines(lines) == [i \in 1..Len(lines) |-> Strip(lines[i])]

\* The lines that are not blank, in their order.
NonBlank(lines) == SelectSeq(lines, LAMBDA line : line # << >>)

\* s without its last element
Front(s) == SubSeq(s, 1, Len(s) - 1)

\* C24: in interactive mode no message sent is blank or has white space at
\* either end, and the messages sent so far are the lines typed so far that
\* are not blank, trimmed and in their order: all of them while the program
\* waits for a response or for the next line, all but the last while that
\* line waits to be sent, and all or all but the last once the loop has
\* ended (the last send may have been cut off).
C24_SendsNonBlankTrimmedInputs ==
    InteractiveMode =>
      LET lines == NonBlank(TrimmedLines(client.typed)) IN
      /\ \A i \in 1..Len(client.sent) :
           client.sent[i] # << >> /\ Trimmed(client.sent[i])
      /\ client.pc \in {"input", "recv"} => client.sent = lines
      /\ client.pc = "send" =>
           (lines # << >> /\ client.sent = Front(lines)
            /\ client.user_input = lines[Len(lines)])
      /\ client.pc \in {"close", "done"} =>
           (client.sent = lines
            \/ (lines # << >> /\ client.sent = Front(lines)))
      /\ ~ServerGone => \A i \in 1..Len(toServer[ClientConn]) :
           toServer[ClientConn][i] # << >>

\* A blank line and a line with spaces around a letter have been typed; the
\* letter alone has been sent.
C24_Witness ==
    /\ InteractiveMode
    /\ client.typed = << << " " >>, << " ", "d", " " >> >>
    /\ client.sent = << << "d" >> >>
    /\ client.pc = "recv"

\* ---------------------------------------------------------------- C25
\* the last element of a sequence that has one
Last(s) == s[Len(s)]

\* The recv of send_message returns in interactive mode.
ResponseStep ==
    /\ InteractiveMode
    /\ client.pc = "recv"
    /\ Len(client'.got) = Len(client.got) + 1

\* The loop has ended on a quit line that was sent and answered.
QuitAnswered ==
    /\ InteractiveMode
    /\ client.pc = "close"
    /\ Len(client.got) = Len(client.sent)
    /\ client.sent # << >>
    /\ Lower(Last(client.sent)) = Quit
    /\ Last(client.got) # << >>

\* C25: when the recv of an exchange returns in interactive mode, the loop
\* ends if and only if nothing was received or the line, in lower case, is
\* quit, and otherwise asks for the next line; a quit line has been sent
\* like any other before that; once the loop has ended nothing more is
\* sent (what is in flight to the server only shrinks); and after an
\* answered quit the client closes its socket, once, while the server's
\* handler is still in its session with its socket open.
C25_LoopEndsOnQuitOrEmpty ==
    /\ [][ ResponseStep =>
             /\ client'.pc \in {"close", "input"}
             /\ client'.pc = "close" <=>
                  (Last(client'.got) = << >>
                   \/ Lower(client.user_input) = Quit)
             /\ Last(client.sent) = client.user_input
             /\ client'.recvs = client.recvs + 1 ]_vars
    /\ [][ client.pc \in {"close", "done"} =>
             /\ client'.sent = client.sent
             /\ client'.recvs = client.recvs
             /\ client'.pc \in {"close", "done"}
             /\ \E k \in 0..Len(toServer[ClientConn]) :
                  toServer'[ClientConn] =
                    SubSeq(toServer[ClientConn], k + 1,
                           Len(toServer[ClientConn])) ]_vars
    /\ [](QuitAnswered => ENABLED MainClose)
    /\ [][ (QuitAnswered /\ client'.closes # client.closes /\ ~ServerGone) =>
             /\ InSession(ClientConn)
             /\ sock[ClientConn] = "open"
             /\ peer[ClientConn] = "open"
             /\ peer'[ClientConn] = "closed"
             /\ client'.closes = 1 ]_vars

\* Quit, typed with a capital, was sent and answered with the farewell; the
\* client has closed its socket and the handler has not.
C25_Witness ==
    /\ InteractiveMode
    /\ client.pc = "done"
    /\ client.typed = << << "d" >>, << "Q", "u", "i", "t" >> >>
    /\ client.sent = client.typed
    /\ Last(client.got) = QuitResponse
    /\ client.closes = 1
    /\ InSession(ClientConn)
    /\ sock[ClientConn] = "open"

\* ---------------------------------------------------------------- C26
\* The interactive loop is left without a response having come: the
\* operator's interrupt, the end of the input, or a send or recv that
\* raises.
LoopCutStep ==
    /\ InteractiveMode
    /\ client.pc \in {"input", "send", "recv"}
    /\ client'.pc = "close"
    /\ client'.got = client.got

\* The program moves while it waits for a line and no line is left.
EndOfInputStep ==
    /\ InteractiveMode
    /\ client.pc = "input"
    /\ client.inputs = << >>
    /\ client' # client

\* C26: in interactive mode the end of the input ends the loop, and so can
\* an interrupt wherever the loop is; a loop that ends so sends nothing in
\* that step, ends without a traceback and goes to the close of the
\* socket, which is then open, not yet closed, and can be closed; nothing
\* is sent from there on; and when the program has ended after a connect,
\* the socket has been closed once and the exit status is 0.
C26_InterruptOrEofEndsLoop ==
    /\ [][ EndOfInputStep => client'.pc = "close" ]_vars
    /\ []((InteractiveMode /\ client.pc \in {"input", "send", "recv"}) =>
            ENABLED OperatorInterrupt)
    /\ [][ LoopCutStep =>
             /\ client'.sent = client.sent
             /\ toServer' = toServer
             /\ ~client'.crashed ]_vars
    /\ []((InteractiveMode /\ client.pc = "close") =>
            /\ client.sock = "open"
            /\ client.closes = 0
            /\ ENABLED MainClose)
    /\ [][ (InteractiveMode /\ client.pc \in {"close", "done"}) =>
             client'.sent = client.sent /\ client'.pc # "send" ]_vars
    /\ []((InteractiveMode /\ client.pc = "done" /\ client.sock # "none") =>
            /\ client.sock = "closed"
            /\ client.closes = 1
            /\ client.status = IF client.crashed THEN 1 ELSE 0)

\* The operator interrupted the program while it waited for the response
\* of a running server: one message sent, none received, a line still to
\* type, the socket closed and the exit status 0.
C26_Witness ==
    /\ InteractiveMode
    /\ client.pc = "done"
    /\ ~ServerGone
    /\ Len(client.sent) = 1
    /\ client.got = << >>
    /\ client.inputs # << >>
    /\ client.sock = "closed"
    /\ client.closes = 1
    /\ client.status = 0

\* ---------------------------------------------------------------- C27
\* The client program ends, having connected.
SessionEndStep ==
    /\ client.sock # "none"
    /\ client.pc # "done"
    /\ client'.pc = "done"

\* C27: the client program never closes its socket twice; while its socket
\* is open it has not closed it; every way out of a session (the end of
\* either mode, a failed read of the welcome, a send or recv that fails or
\* finds the server gone, an interrupt, the end of the input) leads to the
\* close of the socket, which can always be made, and the program ends
\* only by that close, the first and only one; a program that has ended
\* after a connect has closed its socket exactly once.
C27_SocketClosedExactlyOnce ==
    /\ [](client.closes <= 1)
    /\ [](client.sock = "open" => client.closes = 0 /\ client.pc # "done")
    /\ [](client.pc = "close" => client.sock = "open" /\ ENABLED MainClose)
    /\ [][ (client.pc \in {"welcome", "input", "send", "recv"}
              /\ client'.pc \notin {"welcome", "input", "send", "recv"}) =>
             client'.pc = "close" ]_vars
    /\ [][ SessionEndStep =>
             /\ client.pc = "close"
             /\ client'.closes = 1
             /\ client'.sock = "closed"
             /\ ~ServerGone => peer'[ClientConn] = "closed" ]_vars
    /\ []((client.pc = "done" /\ client.connects = 1
             /\ client.sock # "none") =>
            client.closes = 1 /\ client.sock = "closed")

\* The read of the welcome failed (the server had gone); the socket was
\* closed once and the program ended with a traceback.
C27_Witness ==
    /\ client.pc = "done"
    /\ ~client.welcome
    /\ client.recvs = 1
    /\ client.crashed
    /\ client.closes = 1
    /\ client.sock = "closed"

\* ---------------------------------------------------------------- C28
\* The command line gives neither -m nor -i.
NeitherMode == client.pc # "idle" /\ client.message = << >>
               /\ ~client.interactive

\* The command line gives both -m and -i.
BothModes == client.pc # "idle" /\ client.message # << >>
             /\ client.interactive

\* The invocation was refused: no connect is made and the program ends with
\* a non-zero exit status.
Refused ==
    /\ client.pc \in {"args", "done"}
    /\ client.connects = 0
    /\ client.pc = "done" => client.status > 0

\* C28 (as stated): an invocation with neither a message nor the
\* interactive flag is refused with a non-zero exit status before any
\* connect; no invocation both reads lines from the operator and sends the
\* message of its command line; and an invocation with both a message and
\* the interactive flag is refused as well.
C28_ModesRequiredAndExclusive ==
    /\ NeitherMode => Refused
    /\ client.pc = "input" => client.interactive
    /\ (client.sent # << >> /\ client.typed = << >>) => ~client.interactive
    /\ BothModes => Refused

\* ---------------------------------------------------------------- C29
\* The handler thread of connection h exists and has not ended.
Running(h) == pc[h] \notin {"none", "done"}

\* The label a welcome message carries: what stands between "Your
\* connection ID: " and the end of the line.
LabelOf(msg) == << "Thread-" >> \o SubSeq(msg, 3, Len(msg) - 1)

\* The handler of connection h sends its welcome message to an open peer.
WelcomeStep(h) == ~welcomed[h] /\ welcomed'[h] /\ peer[h] = "open"

\* C29: the welcome message a handler sends ends with the line "Your
\* connection ID: Thread-N", N being the digits of the number its thread
\* was named with, which is positive and stays the same while the thread
\* runs; and no two handlers that run at the same time have the same N, so
\* that their welcome messages carry different labels.
C29_WelcomeLabelsDistinct ==
    /\ [][ \A h \in Conns : WelcomeStep(h) =>
             LET msg == Decode(Last(toClient'[h])) IN
             /\ Len(toClient'[h]) = Len(toClient[h]) + 1
             /\ msg[2] = "Your connection ID: Thread-"
             /\ msg[Len(msg)] = "\n"
             /\ LabelOf(msg) = << "Thread-" >> \o Digits(label[h])
             /\ \A i \in 3..(Len(msg) - 1) :
                  \E k \in 1..Len(DigitChars) : msg[i] = DigitChars[k]
             /\ Len(msg) > 3 ]_vars
    /\ [][ \A h \in Conns : (Running(h) /\ Running(h)') =>
             label'[h] = label[h] ]_vars
    /\ [](\A h \in Conns : Running(h) => label[h] > 0)
    /\ [](\A g, h \in Conns : (g # h /\ Running(g) /\ Running(h)) =>
            LabelOf(WelcomeMsg(g)) # LabelOf(WelcomeMsg(h)))

\* Two handlers are in session, both have sent their welcome, with the
\* labels Thread-1 and Thread-2.
C29_Witness ==
    /\ \A h \in {1, 2} : InSession(h) /\ welcomed[h]
    /\ LabelOf(WelcomeMsg(1)) = << "Thread-", "1" >>
    /\ LabelOf(WelcomeMsg(2)) = << "Thread-", "2" >>

\* ---------------------------------------------------------------- C30
\* The message and every response to it fit in one receive buffer.
FitsOneReceive(m) ==
    /\ Size(Encode(m)) <= BUFFER_SIZE
    /\ \A r \in Answers(Encode(m)) : Size(Encode(r)) <= BUFFER_SIZE

\* The receives of the exchanges that returned something.
Received == SelectSeq(client.got, LAMBDA r : r # << >>)

\* C30 (as stated): whatever the client sends, the receive it makes after
\* its i-th send, when it returns anything, returns the complete response
\* of the server to the i-th message and nothing else.
C30_ExchangesAligned ==
    \A i \in 1..Len(client.got) :
        client.got[i] # << >> =>
            Decode(client.got[i]) \in Answers(Encode(client.sent[i]))

\* C30 (amended): as long as every message sent so far and its response fit
\* in one receive buffer, the receive the client makes after its i-th send,
\* when it returns anything, returns the complete response of the server to
\* the i-th message and nothing else, and the handler has read no more
\* messages than the client sent, has sent no more responses than it read
\* messages, and the client has received no more responses than were sent.
C30_AlignedWhenResponsesFit ==
    /\ \A i \in 1..Len(client.got) :
         ((\A j \in 1..i : FitsOneReceive(client.sent[j]))
            /\ client.got[i] # << >>) =>
           Decode(client.got[i]) \in Answers(Encode(client.sent[i]))
    /\ ((\A j \in 1..Len(client.sent) : FitsOneReceive(client.sent[j]))
          /\ Running(ClientConn)) =>
         /\ Len(Received) <= resps[ClientConn]
         /\ resps[ClientConn] <= recvs[ClientConn]
         /\ recvs[ClientConn] <= Len(client.sent)

\* Two exchanges in interactive mode, each answered by its own response.
C30_Witness ==
    /\ client.sent = << << "d" >>, Quit >>
    /\ client.got = << EchoResponse(<< "d" >>), QuitResponse >>
    /\ Running(ClientConn)
    /\ resps[ClientConn] = 2

\* ---------------------------------------------------------------- C31
\* The handlers that have completed their increment and have not completed
\* their decrement.
Counted ==
    { h \in Conns :
        pc[h] \in {"welcome", "recv", "dispatch", "send", "close",
                   "dec_acq", "dec"} }

\* Handler h completes its increment, or its decrement, in this step.
IncrementStep(h) == pc[h] = "inc" /\ pc'[h] = "welcome"

DecrementStep(h) == pc[h] = "dec" /\ pc'[h] = "done"

\* C31: the counter is zero when the server starts; for as long as the
\* process runs, a step changes it by +1 exactly when a handler completes
\* its increment, by -1 exactly when a handler completes its decrement, and
\* not at all otherwise (it is never set back); and in every state it
\* equals the number of handlers that have completed their increment and
\* not their decrement, and is not negative.
C31_CounterCountsHandlers ==
    /\ [](lis = "starting" => active_connections = 0)
    /\ [][ Alive' =>
             /\ (\E h \in Conns : IncrementStep(h)) <=>
                  active_connections' = active_connections + 1
             /\ (\E h \in Conns : DecrementStep(h)) <=>
                  active_connections' = active_connections - 1
             /\ active_connections' - active_connections \in {-1, 0, 1}
         ]_vars
    /\ [](Alive =>
            /\ active_connections = Cardinality(Counted)
            /\ active_connections >= 0)

\* Two handlers have incremented; one of them holds the lock with the
\* counter loaded for its decrement, the other is in session: the counter
\* is 2.
C31_Witness ==
    \E g, h \in Conns :
        /\ g # h
        /\ pc[g] = "dec"
        /\ pc[h] = "recv"
        /\ active_connections = 2
        /\ tmp[g] = 2

\* ---------------------------------------------------------------- C32
\* Handler h receives bytes in this step.
ReceiveStep(h) == pc[h] = "recv" /\ pc'[h] = "dispatch"

\* Handler h leaves the statement that decodes and dispatches.
AfterReceiveStep(h) == pc[h] = "dispatch" /\ pc'[h] # "dispatch"

\* Handler h leaves the send of its response.
AfterDispatchStep(h) == pc[h] = "send" /\ pc'[h] # "send"

\* The dispatcher is called once, on the trimmed text of the whole buffer.
DispatchedOnce(h) ==
    /\ pc'[h] = "send"
    /\ response'[h]
         \in Responses(Strip(Decode(data[h])), active_connections)
    /\ data'[h] = data[h]

\* The one send of the response is made: it returns and the loop goes back
\* to recv, or it raises and the handler leaves.
SentOnce(h) ==
    \/ /\ pc'[h] = "recv"
       /\ resps'[h] = resps[h] + 1
       /\ peer[h] = "open" =>
            toClient'[h] = Append(toClient[h], Encode(response[h]))
       /\ peer[h] # "open" => toClient'[h] = toClient[h]
    \/ /\ pc'[h] = "close"
       /\ exitCause'[h] = "send"
       /\ toClient'[h] = toClient[h]

\* Between two receives there is one response: a handler at recv has
\* answered every receive, a handler past recv owes one response.
OneResponsePerReceive(h) ==
    /\ pc[h] = "recv" => recvs[h] = resps[h]
    /\ pc[h] \in {"dispatch", "send"} => recvs[h] = resps[h] + 1

\* C32 (as stated): whatever bytes one receive returns, they are not empty
\* and at most one buffer long, the dispatcher is called once on their
\* trimmed text and the response is sent once, before the next receive.
C32_EveryReceiveDispatched ==
    /\ [][ \A h \in Conns :
             /\ ReceiveStep(h) =>
                  (data'[h] # << >> /\ Size(data'[h]) <= BUFFER_SIZE
                   /\ recvs'[h] = recvs[h] + 1)
             /\ AfterReceiveStep(h) => DispatchedOnce(h)
             /\ AfterDispatchStep(h) => SentOnce(h) ]_vars
    /\ [](\A h \in Conns : OneResponsePerReceive(h))

\* C32 (amended): whatever bytes one receive returns, they are not empty
\* and at most one buffer long; when they are valid UTF-8 the dispatcher is
\* called once on their trimmed text and the response is sent once, before
\* the next receive; when they are not (as the beginning or the end of a
\* message that was cut within a character), the dispatcher is not called,
\* nothing is sent and the handler leaves its loop.
C32_DecodableReceiveDispatched ==
    /\ [][ \A h \in Conns :
             /\ ReceiveStep(h) =>
                  (data'[h] # << >> /\ Size(data'[h]) <= BUFFER_SIZE
                   /\ recvs'[h] = recvs[h] + 1)
             /\ AfterReceiveStep(h) =>
                  IF Decodable(data[h]) THEN DispatchedOnce(h)
                  ELSE /\ pc'[h] = "close"
                       /\ exitCause'[h] = "decode"
                       /\ resps'[h] = resps[h]
                       /\ toClient'[h] = toClient[h]
             /\ AfterDispatchStep(h) => SentOnce(h) ]_vars
    /\ [](\A h \in Conns : OneResponsePerReceive(h))

\* Two messages, "d" and "d" with a line end, came in one receive and are
\* answered by the one echo of "dd" while nothing is left to read.
C32_Witness ==
    /\ pc[1] = "send"
    /\ recvs[1] = 1
    /\ data[1] = << "d", "d", "\n" >>
    /\ response[1] = EchoResponse(<< "d", "d" >>)
    /\ toServer[1] = << >>

\* ---------------------------------------------------------------- C33
\* The connections whose welcome message has been sent and whose handler
\* has not completed its cleanup.
WelcomedClients ==
    { c \in Conns :
        welcomed[c] /\ pc[c] \in {"recv", "dispatch", "send", "close",
                                  "dec_acq", "dec"} }

\* C33: for as long as the process runs, the counter is at least the number
\* of connections whose welcome message has been sent and whose handler has
\* not completed its cleanup; and the count a status response reports is
\* at least that number in the state in which the dispatcher reads the
\* counter.
C33_StatusCountsWelcomed ==
    /\ [](Alive => active_connections >= Cardinality(WelcomedClients))
    /\ [][ \A h \in Conns : StatusStep(h) =>
             /\ IsStatusResponse(response'[h])
             /\ StatusCount(response'[h]) >= Cardinality(WelcomedClients)
             /\ h \in WelcomedClients ]_vars

\* A status response reports 2 while one client has been welcomed: the
\* other handler has incremented and has not sent its welcome yet.
C33_Witness ==
    /\ pc[1] = "send"
    /\ response[1] = StatusResponse(2)
    /\ pc[2] = "welcome"
    /\ WelcomedClients = {1}

\* ---------------------------------------------------------------- C34
\* The status responses among the messages the server has sent to the peer
\* of connection c and the peer has not read.
StatusResponsesTo(c) ==
    { i \in 1..Len(toClient[c]) : IsStatusResponse(Decode(toClient[c][i])) }

\* C34: the handler that dispatches a status command has completed its
\* increment and not its decrement, and what it reports is the counter,
\* which is at least 1 then, whatever the other connections do; so every
\* status response, being sent or sent and not yet read, reports at least
\* 1.
C34_StatusReportsAtLeastOne ==
    /\ [][ \A h \in Conns : StatusStep(h) =>
             /\ h \in Counted
             /\ active_connections >= 1
             /\ IsStatusResponse(response'[h])
             /\ StatusCount(response'[h]) = active_connections
             /\ StatusCount(response'[h]) >= 1 ]_vars
    /\ [](\A h \in Conns :
            (pc[h] = "send" /\ IsStatusResponse(response[h])) =>
              StatusCount(response[h]) >= 1)
    /\ [](\A c \in Conns : \A i \in StatusResponsesTo(c) :
            StatusCount(Decode(toClient[c][i])) >= 1)

\* A status response reports 1 after the handler of the other connection
\* has ended: only the asking connection is counted.
C34_Witness ==
    /\ pc[1] = "send"
    /\ response[1] = StatusResponse(1)
    /\ pc[2] = "done"
    /\ active_connections = 1

\* ---------------------------------------------------------------- C35
\* Handler h waits at `with connection_lock:`, for its increment or for its
\* decrement.
WaitsForLock(h) == pc[h] \in {"start", "dec_acq"}

\* Handler h is inside a `with connection_lock:` block.
HoldsLock(h) == connection_lock = h

\* C35: a handler that holds the lock is between the load and the store of
\* its increment or decrement, can always take its next step, and that
\* step releases the lock; the lock changes hands in no other way.  So,
\* the handlers being scheduled fairly and for as long as the process
\* runs, a handler that holds the lock releases it, and every handler that
\* waits to increment or to decrement acquires it.
C35_LockIsReleasedAndAcquired ==
    /\ [](\A h \in Conns : HoldsLock(h) =>
            pc[h] \in {"inc", "dec"} /\ ENABLED HandlerStep(h))
    /\ [][ \A h \in Conns :
             /\ (HoldsLock(h) /\ pc'[h] # pc[h]) => connection_lock' = NoOwner
             /\ (HoldsLock(h) /\ pc'[h] = pc[h] /\ Alive') => HoldsLock(h)'
             /\ (~HoldsLock(h) /\ HoldsLock(h)') =>
                  (WaitsForLock(h) /\ connection_lock = NoOwner) ]_vars
    /\ \A h \in Conns : HoldsLock(h) ~> ~HoldsLock(h)
    /\ \A h \in Conns : WaitsForLock(h) ~> (HoldsLock(h) \/ ~Alive)

\* A handler waits to decrement while another holds the lock for its
\* increment.
C35_Witness ==
    \E g, h \in Conns :
        /\ pc[h] = "dec_acq"
        /\ pc[g] = "inc"
        /\ HoldsLock(g)

=============================================================================
